---------------------------- MODULE Spec2Model ----------------------------
(***************************************************************************)
(* A model of the skillscore evaluation engine: the rubric table and its   *)
(* load-time weight check (src/src/rubric.ts), the grade mapper, the eight *)
(* category scorers, the path/URL classifier and the aggregator            *)
(* (src/src/scorer.ts).                                                    *)
(*                                                                         *)
(* Text is modelled by TLA+ strings, and String.prototype.includes,        *)
(* startsWith, toLowerCase and the regular expressions of the source are   *)
(* computed character by character.  JavaScript numbers are modelled in    *)
(* fixed point: the real r is the integer r * Scale, which is exact for    *)
(* every value the engine computes (quarter points, weights in multiples   *)
(* of 0.0001, percentages in multiples of 0.0001).                         *)
(***************************************************************************)
EXTENDS Integers, Sequences, FiniteSets, TLC

VARIABLES
    categories,   \* the SCORING_CATEGORIES array of the configured rubric module
    rubric,       \* "unloaded" | "loaded" | "error": the state of the rubric module
    skill,        \* the ParsedSkill the caller holds
    frags,        \* the text fragments the caller has appended to its SKILL.md text
    scores,       \* outcomes of the scoreSkill calls made so far, oldest first
    grades,       \* <<score, grade>> pairs of the getLetterGrade calls made so far
    portability,  \* outcome of the last scorePortability step taken on its own
    github,       \* the last isGitHubUrl / parseGitHubUrl call and what it gave
    cli           \* the state of the command-line run

vars == <<categories, rubric, skill, frags, scores, grades, portability, github, cli>>

(***************************************************************************)
(* Fixed-point numbers.                                                    *)
(***************************************************************************)
Scale == 100 * 100

R(n) == n * Scale

\* a * b; when one operand is a whole number the product is formed without
\* the intermediate a * b, which keeps it in TLC's integer range
Mul(a, b) ==
    IF b % Scale = 0 THEN a * (b \div Scale)
    ELSE IF a % Scale = 0 THEN (a \div Scale) * b
    ELSE (a * b) \div Scale

Div(a, b) == (a * Scale) \div b

Abs(a) == IF a < 0 THEN -a ELSE a

Min(a, b) == IF a < b THEN a ELSE b

\* Math.round: the nearest integer, halves rounded up
Round(a) == ((a + (Scale \div 2)) \div Scale) * Scale

(***************************************************************************)
(* Strings.                                                                *)
(***************************************************************************)
Chars(s) == {SubSeq(s, i, i) : i \in 1..Len(s)}

LowerChars == Chars("abcdefghijklmnopqrstuvwxyz")
UpperChars == Chars("ABCDEFGHIJKLMNOPQRSTUVWXYZ")
DigitChars == Chars("0123456789")

UpperAlphabet == "ABCDEFGHIJKLMNOPQRSTUVWXYZ"
LowerAlphabet == "abcdefghijklmnopqrstuvwxyz"

LowerChar(c) ==
    IF c \in UpperChars
    THEN LET i == CHOOSE j \in 1..Len(UpperAlphabet) : SubSeq(UpperAlphabet, j, j) = c
         IN  SubSeq(LowerAlphabet, i, i)
    ELSE c

\* String.prototype.toLowerCase, character by character (the string is halved
\* rather than peeled, which keeps the recursion shallow)
RECURSIVE ToLowerCase(_)
ToLowerCase(s) ==
    IF s = "" THEN ""
    ELSE IF Len(s) = 1 THEN LowerChar(s)
    ELSE LET h == Len(s) \div 2
         IN  ToLowerCase(SubSeq(s, 1, h)) \o ToLowerCase(SubSeq(s, h + 1, Len(s)))

UpperChar(c) ==
    IF c \in LowerChars
    THEN LET i == CHOOSE j \in 1..Len(LowerAlphabet) : SubSeq(LowerAlphabet, j, j) = c
         IN  SubSeq(UpperAlphabet, i, i)
    ELSE c

\* String.prototype.toUpperCase, halving as toLowerCase does
RECURSIVE ToUpperCase(_)
ToUpperCase(s) ==
    IF s = "" THEN ""
    ELSE IF Len(s) = 1 THEN UpperChar(s)
    ELSE LET h == Len(s) \div 2
         IN  ToUpperCase(SubSeq(s, 1, h)) \o ToUpperCase(SubSeq(s, h + 1, Len(s)))

CharAt(s, i) == SubSeq(s, i, i)

\* s.substring(i - 1, j): the characters i..j of s that exist
Slice(s, i, j) ==
    IF i > Len(s) \/ j < i THEN "" ELSE SubSeq(s, i, IF j > Len(s) THEN Len(s) ELSE j)

\* the grave accent, which a TLA+ string cannot hold, is written as a caret;
\* no pattern of the source contains a caret
Backtick == "^"

Includes(s, p) == \E i \in 0..(Len(s) - Len(p)) : SubSeq(s, i + 1, i + Len(p)) = p

StartsWith(s, p) == Len(p) <= Len(s) /\ SubSeq(s, 1, Len(p)) = p

\* patterns.some(p => content.includes(p))
SomeIncluded(content, patterns) ==
    \E i \in 1..Len(patterns) : Includes(content, patterns[i])

\* patterns.filter(p => content.includes(p))
RECURSIVE FilterIncluded(_, _)
FilterIncluded(content, patterns) ==
    IF patterns = <<>> THEN <<>>
    ELSE (IF Includes(content, Head(patterns)) THEN <<Head(patterns)>> ELSE <<>>)
         \o FilterIncluded(content, Tail(patterns))

\* Array.prototype.join
RECURSIVE Join(_, _)
Join(list, sep) ==
    IF list = <<>> THEN ""
    ELSE IF Len(list) = 1 THEN list[1]
    ELSE list[1] \o sep \o Join(Tail(list), sep)

(***************************************************************************)
(* The rubric table and its load-time check (rubric.ts).                   *)
(***************************************************************************)
CategoryIds ==
    <<"structure", "clarity", "safety", "dependencies",
      "errorHandling", "scope", "documentation", "portability">>

\* the weights of SCORING_CATEGORIES, in table order (0.15 is 1500)
CategoryWeights == <<1500, 2000, 2000, 1000, 1000, 1000, 1000, 500>>

\* SCORING_CATEGORIES with the weight of its last category drifted by d
RubricTable(d) ==
    [i \in 1..Len(CategoryIds) |->
        [id |-> CategoryIds[i],
         weight |-> CategoryWeights[i] + (IF i = Len(CategoryIds) THEN d ELSE 0),
         maxScore |-> R(10)]]

SCORING_CATEGORIES == RubricTable(0)

\* drifts of a weight a configuration change can introduce (0.002 is 20)
WeightDrifts == {0, 20, -20, -500}

RECURSIVE SumWeights(_)
SumWeights(table) ==
    IF table = <<>> THEN 0 ELSE Head(table).weight + SumWeights(Tail(table))

\* SCORING_CATEGORIES.reduce((sum, cat) => sum + cat.weight, 0)
totalWeight(table) == SumWeights(table)

\* the tolerance 0.001
WeightTolerance == 10

WeightCheckFails(table) == Abs(totalWeight(table) - R(1)) > WeightTolerance

GetLetterGradeStrict(score) ==
    IF score > R(97) THEN "A+"
    ELSE IF score >= R(93) THEN "A"
    ELSE IF score >= R(90) THEN "A-"
    ELSE IF score >= R(87) THEN "B+"
    ELSE IF score >= R(83) THEN "B"
    ELSE IF score >= R(80) THEN "B-"
    ELSE IF score >= R(77) THEN "C+"
    ELSE IF score >= R(73) THEN "C"
    ELSE IF score >= R(70) THEN "C-"
    ELSE IF score >= R(67) THEN "D+"
    ELSE IF score >= R(65) THEN "D"
    ELSE IF score >= R(60) THEN "D-"
    ELSE "F"

GetLetterGradeSwapped(score) ==
    IF score >= R(97) THEN "A+"
    ELSE IF score >= R(93) THEN "A"
    ELSE IF score >= R(90) THEN "A-"
    ELSE IF score >= R(87) THEN "B+"
    ELSE IF score >= R(83) THEN "B"
    ELSE IF score >= R(80) THEN "B-"
    ELSE IF score >= R(77) THEN "C+"
    ELSE IF score >= R(73) THEN "C"
    ELSE IF score >= R(70) THEN "C-"
    ELSE IF score >= R(67) THEN "D"
    ELSE IF score >= R(65) THEN "D+"
    ELSE IF score >= R(60) THEN "D-"
    ELSE "F"

getLetterGrade(score) ==
    IF score >= R(97) THEN "A+"
    ELSE IF score >= R(93) THEN "A"
    ELSE IF score >= R(90) THEN "A-"
    ELSE IF score >= R(87) THEN "B+"
    ELSE IF score >= R(83) THEN "B"
    ELSE IF score >= R(80) THEN "B-"
    ELSE IF score >= R(77) THEN "C+"
    ELSE IF score >= R(73) THEN "C"
    ELSE IF score >= R(70) THEN "C-"
    ELSE IF score >= R(67) THEN "D+"
    ELSE IF score >= R(65) THEN "D"
    ELSE IF score >= R(60) THEN "D-"
    ELSE "F"

(***************************************************************************)
(* The category scorers (scorer.ts).  A scorer yields [score, findings],   *)
(* or Threw when the JavaScript raises a TypeError on the way.             *)
(***************************************************************************)
\* the value of a field that is absent from the ParsedSkill object
Undefined == "<undefined>"

Threw == [threw |-> TRUE]

\* a scorer that reports only the sub-checks that awarded something
ScoredAwardsOnly(score, findings) ==
    [threw |-> FALSE, score |-> score,
     findings |-> SelectSeq(findings, LAMBDA f : f.points > 0)]

Scored(score, findings) == [threw |-> FALSE, score |-> score, findings |-> findings]

\* findings that carry twice the points of their sub-check
FindingDoubled(type, message, points) ==
    [type |-> type, message |-> message, points |-> 2 * points]

Finding(type, message, points) == [type |-> type, message |-> message, points |-> points]

\* JavaScript truthiness of a string-typed field
Truthy(v) == v # Undefined /\ v # ""

scoreStructure(sk) ==
    LET exists == IF sk.skillMdExists
                  THEN Finding("pass", "SKILL.md file exists", R(3))
                  ELSE Finding("fail", "SKILL.md file is missing", 0)
        name == IF Truthy(sk.name) /\ Len(sk.name) > 0
                THEN Finding("pass", "Clear skill name: \"" \o sk.name \o "\"", R(2))
                ELSE Finding("fail", "No clear skill name found", 0)
        desc == IF Truthy(sk.description) /\ Len(sk.description) > 20
                THEN Finding("pass", "Clear description provided", R(2))
                ELSE IF Truthy(sk.description) /\ Len(sk.description) > 0
                THEN Finding("warning", "Description is very brief", R(1))
                ELSE Finding("fail", "No description found", 0)
        transient == \E i \in 1..Len(sk.files) :
                        \/ Includes(sk.files[i], "tmp")
                        \/ Includes(sk.files[i], "temp")
                        \/ Includes(sk.files[i], ".log")
        orgScore == (IF sk.structure.totalFiles <= 20 THEN Scale \div 4 ELSE 0)
                  + (IF Len(sk.structure.directories) <= 5 THEN Scale \div 4 ELSE 0)
                  + (IF ~transient THEN Scale \div 2 ELSE 0)
        orgPoints == Min(Div(Round(Mul(orgScore, R(2))), R(2)), R(1))
        org == Finding(IF orgScore >= 3 * (Scale \div 4) THEN "pass"
                       ELSE IF orgScore >= Scale \div 2 THEN "warning" ELSE "fail",
                       "File organization: " \o ToString(sk.structure.totalFiles)
                           \o " files, " \o ToString(Len(sk.structure.directories))
                           \o " directories",
                       orgPoints)
        outputPatterns == <<"output", "artifact", "write to", "save to", "generates",
                            "produces", "/output", "result file", "deliverable">>
        hasOutputSpec == SomeIncluded(ToLowerCase(sk.skillMdContent), outputPatterns)
        output == IF hasOutputSpec
                  THEN Finding("pass", "Defines output location or artifacts", R(1))
                  ELSE Finding("fail", "No output/artifact specification found", 0)
        conventionScore ==
              (IF sk.skillMdExists THEN Scale \div 2 ELSE 0)
            + (IF Includes(sk.skillMdContent, "# ") \/ Includes(sk.skillMdContent, "## ")
               THEN Scale \div 2 ELSE 0)
        convention ==
            Finding(IF conventionScore >= Scale \div 2 THEN "pass" ELSE "warning",
                    "Convention compliance: "
                        \o (IF conventionScore >= Scale \div 2
                            THEN "follows" ELSE "partially follows")
                        \o " standard format",
                    conventionScore)
        score == exists.points + name.points + desc.points + orgPoints
                    + output.points + conventionScore
    IN  Scored(Min(score, R(10)), <<exists, name, desc, org, output, convention>>)

\* /\d+\./.test(s)
HasNumberedStep(s) ==
    \E i \in 1..(Len(s) - 1) : CharAt(s, i) \in DigitChars /\ CharAt(s, i + 1) = "."

scoreClarity(sk) ==
    LET content == ToLowerCase(sk.skillMdContent)
        hasSteps == Includes(content, "step") \/ Includes(content, "1.")
                        \/ Includes(content, "-")
        hasCommands == Includes(content, Backtick) \/ Includes(content, "exec")
                        \/ Includes(content, "run")
        specific ==
            IF hasSteps /\ hasCommands
            THEN Finding("pass",
                         "Contains specific step-by-step instructions with commands", R(3))
            ELSE IF hasSteps \/ hasCommands
            THEN Finding("warning",
                         "Has some specific instructions but could be clearer", R(2))
            ELSE Finding("fail", "Instructions lack specificity and clear steps", 0)
        ambiguousWords == <<"maybe", "might", "could", "perhaps", "possibly", "sometimes">>
        ambiguityCount == Len(FilterIncluded(content, ambiguousWords))
        ambiguity ==
            IF ambiguityCount = 0
            THEN Finding("pass", "No ambiguous language detected", R(3))
            ELSE IF ambiguityCount <= 2
            THEN Finding("warning",
                         "Some ambiguous language detected ("
                             \o ToString(ambiguityCount) \o " instances)", R(2))
            ELSE Finding("fail",
                         "Multiple ambiguous words found ("
                             \o ToString(ambiguityCount) \o " instances)", R(1))
        hasNumberedSteps == HasNumberedStep(sk.skillMdContent)
        hasOrderWords == Includes(content, "first") \/ Includes(content, "then")
                            \/ Includes(content, "next")
        order ==
            IF hasNumberedSteps \/ hasOrderWords
            THEN Finding("pass", "Instructions follow logical order", R(2))
            ELSE Finding("warning", "Could benefit from clearer ordering of steps", R(1))
        hasTriggers == Includes(content, "when") \/ Includes(content, "if")
                            \/ Includes(content, "trigger")
        hasSuccessCriteria == Includes(content, "success") \/ Includes(content, "complete")
                            \/ Includes(content, "done")
        agent ==
            IF hasTriggers /\ hasSuccessCriteria
            THEN Finding("pass", "Clear triggers and success criteria defined", R(2))
            ELSE IF hasTriggers \/ hasSuccessCriteria
            THEN Finding("warning",
                         "Has some clarity for agents but could be improved", R(1))
            ELSE Finding("fail", "Lacks clear triggers or success criteria for agents", 0)
        score == specific.points + ambiguity.points + order.points + agent.points
    IN  Scored(Min(score, R(10)), <<specific, ambiguity, order, agent>>)

\* the destructive-command sub-check of scoreSafety
destructiveCommands == <<"rm -rf", "rm -f", "del /f", "format", "fdisk", "dd if=">>

DestructiveFindingForgiving(content) ==
    LET destructiveFound == FilterIncluded(content, destructiveCommands)
        hasConfirmation == Includes(content, "confirm") \/ Includes(content, "ask")
                            \/ Includes(content, "prompt")
    IN  IF Len(destructiveFound) = 0
        THEN Finding("pass", "No dangerous destructive commands found", R(3))
        ELSE IF hasConfirmation
        THEN Finding("warning",
                     "Destructive commands found but with confirmation: "
                         \o Join(destructiveFound, ", "), R(2))
        ELSE Finding("fail",
                     "Dangerous commands without confirmation: "
                         \o Join(destructiveFound, ", "), R(1))

\* full credit for the absence of destructive commands only next to
\* confirmation language
DestructiveFindingGated(content) ==
    LET destructiveFound == FilterIncluded(content, destructiveCommands)
        hasConfirmation == Includes(content, "confirm") \/ Includes(content, "ask")
                            \/ Includes(content, "prompt")
    IN  IF Len(destructiveFound) = 0
        THEN Finding("pass", "No dangerous destructive commands found",
                     IF hasConfirmation THEN R(3) ELSE R(2))
        ELSE IF hasConfirmation
        THEN Finding("warning",
                     "Destructive commands found but with confirmation: "
                         \o Join(destructiveFound, ", "), R(2))
        ELSE Finding("fail",
                     "Dangerous commands without confirmation: "
                         \o Join(destructiveFound, ", "), 0)

DestructiveFindingLenient(content) ==
    LET destructiveFound == FilterIncluded(content, destructiveCommands)
        hasConfirmation == Includes(content, "confirm") \/ Includes(content, "ask")
                            \/ Includes(content, "prompt")
    IN  IF Len(destructiveFound) = 0
        THEN Finding("pass", "No dangerous destructive commands found", R(3))
        ELSE IF hasConfirmation
        THEN Finding("warning",
                     "Destructive commands found but with confirmation: "
                         \o Join(destructiveFound, ", "), R(3))
        ELSE Finding("fail",
                     "Dangerous commands without confirmation: "
                         \o Join(destructiveFound, ", "), 0)

DestructiveFinding(content) ==
    LET destructiveFound == FilterIncluded(content, destructiveCommands)
        hasConfirmation == Includes(content, "confirm") \/ Includes(content, "ask")
                            \/ Includes(content, "prompt")
    IN  IF Len(destructiveFound) = 0
        THEN Finding("pass", "No dangerous destructive commands found", R(3))
        ELSE IF hasConfirmation
        THEN Finding("warning",
                     "Destructive commands found but with confirmation: "
                         \o Join(destructiveFound, ", "), R(2))
        ELSE Finding("fail",
                     "Dangerous commands without confirmation: "
                         \o Join(destructiveFound, ", "), 0)

scoreSafety(sk) ==
    LET content == ToLowerCase(sk.skillMdContent)
        destructive == DestructiveFinding(content)
        secretPatterns == <<"password", "secret", "token", "api_key", "private_key",
                            "ssh_key", "credential", "auth", ".env">>
        exfilPatterns == <<"curl", "wget", "http", "upload", "send", "post">>
        hasSecrets == SomeIncluded(content, secretPatterns)
        hasExfil == SomeIncluded(content, exfilPatterns)
        hasProtection == Includes(content, "sanitize") \/ Includes(content, "redact")
                            \/ Includes(content, "mask")
        secrets ==
            IF ~hasSecrets \/ ~hasExfil
            THEN Finding("pass", "No obvious secret exfiltration risks", R(3))
            ELSE IF hasProtection
            THEN Finding("warning",
                         "Potential secret handling with protection measures", R(2))
            ELSE Finding("warning", "Potential secret exfiltration risk detected", R(1))
        loopPatterns == <<"while true", "for (;;)", "infinite", "forever">>
        unboundedLoops == FilterIncluded(content, loopPatterns)
        hasBreakCondition == Includes(content, "break") \/ Includes(content, "exit")
                            \/ Includes(content, "timeout")
        loops ==
            IF Len(unboundedLoops) = 0
            THEN Finding("pass", "No unbounded loops detected", R(1))
            ELSE IF hasBreakCondition
            THEN Finding("warning", "Potential unbounded loops with break conditions", R(1))
            ELSE Finding("fail",
                         "Unbounded loops without exit conditions: "
                             \o Join(unboundedLoops, ", "), 0)
        networkTerms == <<"curl", "wget", "fetch", "http", "https", "api",
                          "endpoint", "request">>
        hasNetwork == SomeIncluded(content, networkTerms)
        containmentTerms == <<"allowlist", "whitelist", "restrict", "domain", "scope",
                              "trusted", "untrusted", "sanitize", "validate response">>
        hasContainment == SomeIncluded(content, containmentTerms)
        network ==
            IF hasNetwork
            THEN IF hasContainment
                 THEN Finding("pass", "Network usage with containment measures", R(1))
                 ELSE Finding("fail", "Network usage without containment measures", 0)
            ELSE Finding("pass", "No network usage detected (containment N/A)", R(1))
        privEscalation == <<"sudo", "su -", "chmod 777", "chown root">>
        privFound == FilterIncluded(content, privEscalation)
        hasJustification == Includes(content, "require") \/ Includes(content, "need")
                            \/ Includes(content, "admin")
        permissions ==
            IF Len(privFound) = 0
            THEN Finding("pass", "No privilege escalation commands found", R(2))
            ELSE IF hasJustification
            THEN Finding("warning",
                         "Privilege escalation with justification: "
                             \o Join(privFound, ", "), R(1))
            ELSE Finding("fail",
                         "Privilege escalation without justification: "
                             \o Join(privFound, ", "), 0)
        score == destructive.points + secrets.points + loops.points
                    + network.points + permissions.points
    IN  Scored(Min(score, R(10)), <<destructive, secrets, loops, network, permissions>>)

\* keyword checks with binary credit: Dependencies and Error Handling
KeywordFindingVacuous(content, keywords, points, passMessage, failType, failMessage) ==
    IF content = "" \/ SomeIncluded(content, keywords)
    THEN Finding("pass", passMessage, points)
    ELSE Finding(failType, failMessage, 0)

KeywordFinding(content, keywords, points, passMessage, failType, failMessage) ==
    IF SomeIncluded(content, keywords)
    THEN Finding("pass", passMessage, points)
    ELSE Finding(failType, failMessage, 0)

scoreDependencies(sk) ==
    LET content == ToLowerCase(sk.skillMdContent)
        tools == KeywordFinding(content,
                    <<"require", "depend", "need", "install", "tool", "api", "library">>,
                    R(3), "Tools and dependencies are documented",
                    "fail", "No clear documentation of required tools or dependencies")
        checks == KeywordFinding(content,
                    <<"check", "verify", "validate", "test", "ensure", "command -v">>,
                    R(2), "Includes validation or checking of dependencies",
                    "warning", "Could benefit from dependency checking before execution")
        install == KeywordFinding(content,
                    <<"install", "setup", "brew", "apt", "npm install", "pip install">>,
                    R(3), "Installation instructions provided",
                    "fail", "Missing installation instructions for dependencies")
        env == KeywordFinding(content,
                    <<"env", "environment", "variable", "$", "export", "set">>,
                    R(2), "Environment variables documented",
                    "info", "No environment variables documented (may not be needed)")
        score == tools.points + checks.points + install.points + env.points
    IN  Scored(Min(score, R(10)), <<tools, checks, install, env>>)

scoreErrorHandling(sk) ==
    LET content == ToLowerCase(sk.skillMdContent)
        errors == KeywordFinding(content,
                    <<"error", "fail", "exception", "problem", "issue", "troubleshoot">>,
                    R(3), "Error handling and failure scenarios documented",
                    "fail", "No error handling or failure scenarios documented")
        fallbacks == KeywordFinding(content,
                    <<"fallback", "alternative", "backup", "retry", "recover", "plan b">>,
                    R(3), "Fallback strategies documented",
                    "warning", "No fallback strategies documented")
        validation == KeywordFinding(content,
                    <<"validate", "check", "verify", "status", "confirm">>,
                    R(2), "Validation and status checking included",
                    "warning", "Could benefit from validation to prevent silent failures")
        edges == KeywordFinding(content,
                    <<"edge", "boundary", "limit", "special case", "exception",
                      "corner case">>,
                    R(2), "Edge cases and boundary conditions documented",
                    "info", "Edge cases not specifically documented")
        score == errors.points + fallbacks.points + validation.points + edges.points
    IN  Scored(Min(score, R(10)), <<errors, fallbacks, validation, edges>>)

\* the characters \w of a regular expression
WordChars == LowerChars \cup UpperChars \cup DigitChars \cup {"_"}

\* the characters \s of a regular expression that the inputs can hold
SpaceChars == {" ", "\t", "\n", "\r", "\f"}

\* number of occurrences of the one-character string c in s
CountChar(s, c) == Cardinality({i \in 1..Len(s) : CharAt(s, i) = c})

\* /\bw\b/i.test(s), for a word w of word characters
HasWord(s, w) ==
    LET low == ToLowerCase(s)
    IN  \E i \in 1..(Len(s) - Len(w) + 1) :
            /\ SubSeq(low, i, i + Len(w) - 1) = w
            /\ (i = 1 \/ CharAt(s, i - 1) \notin WordChars)
            /\ (i + Len(w) - 1 = Len(s) \/ CharAt(s, i + Len(w)) \notin WordChars)

\* s.split(/\s+/)
RECURSIVE SplitWs(_)
SplitWs(s) ==
    LET spaces == {i \in 1..Len(s) : CharAt(s, i) \in SpaceChars}
    IN  IF spaces = {} THEN <<s>>
        ELSE LET i == CHOOSE k \in spaces : \A m \in spaces : k <= m
                 rest == {k \in (i + 1)..Len(s) : CharAt(s, k) \notin SpaceChars}
                 j == IF rest = {} THEN Len(s) + 1
                      ELSE CHOOSE k \in rest : \A m \in rest : k <= m
             IN  <<SubSeq(s, 1, i - 1)>> \o SplitWs(SubSeq(s, j, Len(s)))

\* content.match(/`[a-z_-]+`/)
HasInlineCode(s) ==
    \E i \in 1..Len(s) : \E j \in (i + 2)..Len(s) :
        /\ CharAt(s, i) = Backtick
        /\ CharAt(s, j) = Backtick
        /\ \A k \in (i + 1)..(j - 1) : CharAt(s, k) \in LowerChars \cup {"_", "-"}

\* the 'no conflicts' sub-check of scoreScope
ConflictFindingTwoPoints(content) ==
    IF ~SomeIncluded(content, <<"override", "replace", "conflict", "interfere">>)
    THEN Finding("pass", "No obvious conflict indicators", R(2))
    ELSE Finding("warning", "Potential conflicts mentioned", 0)

ConflictFinding(content) ==
    IF ~SomeIncluded(content, <<"override", "replace", "conflict", "interfere">>)
    THEN Finding("pass", "No obvious conflict indicators", R(1))
    ELSE Finding("warning", "Potential conflicts mentioned", 0)

scoreScope(sk) ==
    IF sk.description = Undefined \/ sk.name = Undefined
    THEN Threw   \* skill.description.split / skill.name.toLowerCase on undefined
    ELSE
    LET content == ToLowerCase(sk.skillMdContent)
        wordCount == CountChar(sk.description, " ") + 1
        hasMultipleVerbs ==
            \E w \in {"and", "or", "also", "plus", "additionally"} :
                HasWord(sk.description, w)
        single ==
            IF wordCount <= 50 /\ ~hasMultipleVerbs
            THEN Finding("pass", "Clear single responsibility focus", R(2))
            ELSE IF wordCount <= 100
            THEN Finding("warning", "Mostly focused but could be more specific", R(1))
            ELSE Finding("fail", "Scope appears too broad or unfocused", 0)
        nameWords == SplitWs(ToLowerCase(sk.name))
        descWords == SplitWs(ToLowerCase(sk.description))
        overlap == Cardinality({i \in 1..Len(nameWords) :
                        \E j \in 1..Len(descWords) : descWords[j] = nameWords[i]})
        accurate ==
            IF overlap >= 1 \/ Len(sk.description) > 0
            THEN Finding("pass", "Description aligns with skill name", R(2))
            ELSE Finding("warning",
                         "Description may not accurately reflect functionality", 0)
        triggerWords == <<"when", "if", "trigger", "activate", "invoke", "call", "execute">>
        triggers ==
            IF SomeIncluded(content, triggerWords)
            THEN Finding("pass", "Clear trigger conditions specified", R(2))
            ELSE Finding("warning", "Trigger conditions could be more specific", R(1))
        negativePatterns == <<"don't use", "do not use", "not for", "don't call",
                              "instead use", "not when", "don't use when",
                              "avoid using this">>
        negative ==
            IF SomeIncluded(content, negativePatterns)
            THEN Finding("pass",
                         "Has negative routing examples (what NOT to use this for)", R(2))
            ELSE Finding("fail", "No negative routing examples found", 0)
        hasUseWhen == Includes(content, "use when") \/ Includes(content, "use this when")
        hasToolNames == \/ Includes(content, "curl") \/ Includes(content, "npm")
                        \/ Includes(content, "pip") \/ Includes(content, "brew")
                        \/ HasInlineCode(content)
        hasIOSignals == \/ Includes(content, "input") \/ Includes(content, "output")
                        \/ Includes(content, "returns") \/ Includes(content, "produces")
        routing ==
            IF hasUseWhen \/ (hasToolNames /\ hasIOSignals)
            THEN Finding("pass", "Description has concrete routing signals", R(1))
            ELSE Finding("fail", "Description lacks concrete routing signals", 0)
        conflicts == ConflictFinding(content)
        score == single.points + accurate.points + triggers.points + negative.points
                    + routing.points + conflicts.points
    IN  Scored(Min(score, R(10)),
               <<single, accurate, triggers, negative, routing, conflicts>>)

\* the opening and closing delimiter of a fenced code block
Fence == Backtick \o Backtick \o Backtick

\* (s.match(/p/g) || []).length: the occurrences of p in s that do not overlap
RECURSIVE CountMatches(_, _)
CountMatches(s, p) ==
    LET at == {i \in 1..(Len(s) - Len(p) + 1) : SubSeq(s, i, i + Len(p) - 1) = p}
    IN  IF at = {} THEN 0
        ELSE LET i == CHOOSE k \in at : \A m \in at : k <= m
             IN  1 + CountMatches(SubSeq(s, i + Len(p), Len(s)), p)

\* /```[\s\S]*?(json|yaml|xml|{[\s\S]*?}|\[[\s\S]*?\])[\s\S]*?```/.test(s):
\* a fence, later one of the words or a bracketed span, later a fence
HasStructuredOutput(s) ==
    LET fences == {i \in 1..(Len(s) - 2) : SubSeq(s, i, i + 2) = Fence}
        \* the ends (first index after them) of the spans starting at j
        SpanEnds(j) ==
            {j + Len(w) : w \in {w \in {"json", "yaml", "xml"} :
                                    Slice(s, j, j + Len(w) - 1) = w}}
            \cup {k + 1 : k \in {k \in (j + 1)..Len(s) :
                                    /\ CharAt(s, j) = "{"
                                    /\ CharAt(s, k) = "}"}}
            \cup {k + 1 : k \in {k \in (j + 1)..Len(s) :
                                    /\ CharAt(s, j) = "["
                                    /\ CharAt(s, k) = "]"}}
    IN  \E i \in fences : \E j \in (i + 3)..Len(s) : \E e \in SpanEnds(j) :
            \E c \in fences : c >= e

scoreDocumentation(sk) ==
    LET content == ToLowerCase(sk.skillMdContent)
        examples == KeywordFinding(content,
                    <<"example", "usage", Fence, "sample", "demo">>,
                    R(3), "Usage examples provided", "fail", "No usage examples found")
        io == KeywordFinding(content,
                    <<"input", "output", "parameter", "return", "result">>,
                    R(2), "Input/output documented",
                    "warning", "Input/output not clearly documented")
        limitations == KeywordFinding(content,
                    <<"limitation", "constraint", "caveat", "note", "warning", "caution">>,
                    R(2), "Limitations and caveats documented",
                    "warning", "Limitations not documented")
        troubleshooting == KeywordFinding(content,
                    <<"troubleshoot", "debug", "faq", "common issue", "problem">>,
                    R(1), "Troubleshooting guidance provided",
                    "info", "No troubleshooting section found")
        codeBlockCount == Div(R(CountMatches(sk.skillMdContent, Fence)), R(2))
        templateKeywords == <<"template", "format", "example output", "sample output",
                              "expected output">>
        hasTemplateKeywords == SomeIncluded(content, templateKeywords)
        hasStructuredOutput == HasStructuredOutput(sk.skillMdContent)
        templates ==
            IF codeBlockCount >= R(2) /\ (hasTemplateKeywords \/ hasStructuredOutput)
            THEN Finding("pass",
                    "Has embedded templates or worked examples with expected output", R(2))
            ELSE IF codeBlockCount >= R(1)
            THEN Finding("warning",
                    "Has code blocks but no clear template/output examples", R(1))
            ELSE Finding("fail", "No embedded templates or worked examples", 0)
        score == examples.points + io.points + limitations.points
                    + troubleshooting.points + templates.points
    IN  Scored(Min(score, R(10)), <<examples, io, limitations, troubleshooting, templates>>)

(***************************************************************************)
(* The path/URL classifier (findHardcodedPaths) and scorePortability.      *)
(***************************************************************************)
AlnumChars == LowerChars \cup UpperChars \cup DigitChars

\* [a-zA-Z0-9\/_.-] and [a-zA-Z0-9\\._-]
UnixPathChars == AlnumChars \cup {"/", "_", ".", "-"}
DrivePathChars == AlnumChars \cup {"\\", ".", "_", "-"}

\* the last index of the longest run of characters of class that starts at j
\* (j - 1 when the run is empty)
RunEnd(s, j, class) ==
    LET stops == {k \in j..Len(s) : CharAt(s, k) \notin class}
    IN  IF stops = {} THEN Len(s)
        ELSE (CHOOSE k \in stops : \A m \in stops : k <= m) - 1

\* content.match(/\/[a-zA-Z0-9][a-zA-Z0-9\/_.-]*|[A-Z]:\\[a-zA-Z0-9\\._-]*/g) || [],
\* scanning from index i: leftmost matches, each as long as possible, no overlap
\* a match of the first alternative starts at i: a slash and an alphanumeric
UnixPathAt(s, i) ==
    CharAt(s, i) = "/" /\ i < Len(s) /\ CharAt(s, i + 1) \in AlnumChars

\* a match of the second alternative starts at i: drive letter, colon, backslash
DrivePathAt(s, i) ==
    /\ CharAt(s, i) \in UpperChars
    /\ i + 2 <= Len(s)
    /\ CharAt(s, i + 1) = ":"
    /\ CharAt(s, i + 2) = "\\"

\* content.match(/\/[a-zA-Z0-9][a-zA-Z0-9\/_.-]*|[A-Z]:\\[a-zA-Z0-9\\._-]*/g) || [],
\* scanning from index from: leftmost matches, each as long as possible, no overlap
RECURSIVE PotentialPaths(_, _)
PotentialPaths(s, from) ==
    LET starts == {i \in from..Len(s) : UnixPathAt(s, i) \/ DrivePathAt(s, i)}
    IN  IF starts = {} THEN <<>>
        ELSE LET i == CHOOSE k \in starts : \A m \in starts : k <= m
                 e == IF UnixPathAt(s, i)
                      THEN RunEnd(s, i + 2, UnixPathChars)
                      ELSE RunEnd(s, i + 3, DrivePathChars)
             IN  <<SubSeq(s, i, e)>> \o PotentialPaths(s, e + 1)

\* new RegExp(`https?://[\\w.-]+${escaped path}`).test(content)
UrlPatternTest(content, path) ==
    \E scheme \in {"http://", "https://"} :
        \E i \in 1..Len(content) :
            /\ Slice(content, i, i + Len(scheme) - 1) = scheme
            /\ LET h == i + Len(scheme)
                   last == RunEnd(content, h, WordChars \cup {".", "-"})
               IN  \E m \in h..last :
                       Slice(content, m + 1, m + Len(path)) = path

\* path.match(/\/[a-z0-9]+\/[a-z0-9]+$/)
EndsWithTwoPlainSegments(path) ==
    \E i \in 1..Len(path) : \E j \in (i + 2)..(Len(path) - 1) :
        /\ CharAt(path, i) = "/"
        /\ CharAt(path, j) = "/"
        /\ \A k \in ((i + 1)..(j - 1)) \cup ((j + 1)..Len(path)) :
                CharAt(path, k) \in LowerChars \cup DigitChars

\* the loop body's first test: the candidate is skipped as the tail of a URL
SkippedAsUrl(content, path) ==
    \/ StartsWith(path, "//")
    \/ Includes(content, "http:" \o path)
    \/ Includes(content, "https:" \o path)
    \/ Includes(content, "ftp:" \o path)
    \/ /\ Includes(content, "http://") \/ Includes(content, "https://")
       /\ UrlPatternTest(content, path)

\* the second test: the candidate matches a known non-filesystem convention
SkippedAsConvention(content, path) ==
    \/ StartsWith(path, "/api/") \/ StartsWith(path, "/v1/") \/ StartsWith(path, "/v2/")
    \/ Includes(path, "/data/") /\ Includes(content, "api")
    \/ EndsWithTwoPlainSegments(path) /\ Includes(content, ".com")
    \/ Len(path) < 4

\* the third test: the candidate looks like a real filesystem path
LooksLikeFilesystemPath(path) ==
    \/ \E root \in {"/home/", "/Users/", "/usr/", "/opt/", "/etc/", "/var/",
                    "/tmp/", "/bin/", "/sbin/"} : StartsWith(path, root)
    \/ /\ Len(path) >= 3
       /\ CharAt(path, 1) \in UpperChars
       /\ SubSeq(path, 2, 3) = ":\\"
    \/ Includes(path, "/.")

RECURSIVE KeepHardcoded(_, _)
KeepHardcoded(content, paths) ==
    IF paths = <<>> THEN <<>>
    ELSE LET path == Head(paths)
         IN  (IF /\ ~SkippedAsUrl(content, path)
                 /\ ~SkippedAsConvention(content, path)
                 /\ LooksLikeFilesystemPath(path)
              THEN <<path>> ELSE <<>>)
             \o KeepHardcoded(content, Tail(paths))

findHardcodedPaths(content) == KeepHardcoded(content, PotentialPaths(content, 1))

\* hardcodedPaths.slice(0, 3)
FirstThree(list) == SubSeq(list, 1, Min(3, Len(list)))

\* a relative-path sub-check that asks for the ./ marker
scorePortabilityMarkerOnly(sk) ==
    LET content == sk.skillMdContent
        osSpecific == <<"/home/", "/Users/", "C:\\", "cmd.exe", ".exe", "/usr/local">>
        cross ==
            IF ~SomeIncluded(content, osSpecific)
            THEN Finding("pass", "No OS-specific paths or commands detected", R(3))
            ELSE Finding("warning", "Contains OS-specific elements", R(1))
        hardcodedPaths == findHardcodedPaths(content)
        hardcoded ==
            IF Len(hardcodedPaths) = 0
            THEN Finding("pass", "No hardcoded absolute paths found", R(2))
            ELSE Finding("fail",
                         "Hardcoded paths found: " \o Join(FirstThree(hardcodedPaths), ", "),
                         0)
        platform == KeywordFinding(ToLowerCase(content),
                    <<"platform", "system", "os", "linux", "mac", "windows", "require">>,
                    R(3), "Platform requirements or limitations noted",
                    "warning", "Platform compatibility not discussed")
        hasRelativePaths == Includes(content, "./")
        relative ==
            IF hasRelativePaths
            THEN Finding("pass", "Uses relative paths appropriately", R(2))
            ELSE Finding("warning", "Could benefit from using relative paths", 0)
        score == cross.points + hardcoded.points + platform.points + relative.points
    IN  Scored(Min(score, R(10)), <<cross, hardcoded, platform, relative>>)

scorePortability(sk) ==
    LET content == sk.skillMdContent
        osSpecific == <<"/home/", "/Users/", "C:\\", "cmd.exe", ".exe", "/usr/local">>
        cross ==
            IF ~SomeIncluded(content, osSpecific)
            THEN Finding("pass", "No OS-specific paths or commands detected", R(3))
            ELSE Finding("warning", "Contains OS-specific elements", R(1))
        hardcodedPaths == findHardcodedPaths(content)
        hardcoded ==
            IF Len(hardcodedPaths) = 0
            THEN Finding("pass", "No hardcoded absolute paths found", R(2))
            ELSE Finding("fail",
                         "Hardcoded paths found: " \o Join(FirstThree(hardcodedPaths), ", "),
                         0)
        platform == KeywordFinding(ToLowerCase(content),
                    <<"platform", "system", "os", "linux", "mac", "windows", "require">>,
                    R(3), "Platform requirements or limitations noted",
                    "warning", "Platform compatibility not discussed")
        hasRelativePaths == Includes(content, "./")
        relative ==
            IF hasRelativePaths \/ Len(hardcodedPaths) = 0
            THEN Finding("pass", "Uses relative paths appropriately", R(2))
            ELSE Finding("warning", "Could benefit from using relative paths", 0)
        score == cross.points + hardcoded.points + platform.points + relative.points
    IN  Scored(Min(score, R(10)), <<cross, hardcoded, platform, relative>>)

(***************************************************************************)
(* The aggregator: scoreCategory and scoreSkill.                           *)
(***************************************************************************)
\* the switch of scoreCategory; a category id the switch does not know keeps
\* score 0 and no findings
ScorerResult(sk, id) ==
    CASE id = "structure"     -> scoreStructure(sk)
      [] id = "clarity"       -> scoreClarity(sk)
      [] id = "safety"        -> scoreSafety(sk)
      [] id = "dependencies"  -> scoreDependencies(sk)
      [] id = "errorHandling" -> scoreErrorHandling(sk)
      [] id = "scope"         -> scoreScope(sk)
      [] id = "documentation" -> scoreDocumentation(sk)
      [] id = "portability"   -> scorePortability(sk)
      [] OTHER                -> Scored(0, <<>>)

CategoryScoreOfFraction(category, r) ==
    IF r.threw THEN Threw
    ELSE [threw |-> FALSE,
          category |-> category,
          score |-> r.score,
          maxScore |-> category.maxScore,
          percentage |-> Div(r.score, category.maxScore),
          findings |-> r.findings,
          weightedScore |-> Mul(r.score, category.weight)]

\* the record scoreCategory returns for the scorer's result r
CategoryScoreOf(category, r) ==
    IF r.threw THEN Threw
    ELSE [threw |-> FALSE,
          category |-> category,
          score |-> r.score,
          maxScore |-> category.maxScore,
          percentage |-> Mul(Div(r.score, category.maxScore), R(100)),
          findings |-> r.findings,
          weightedScore |-> Mul(r.score, category.weight)]

\* the scorer runs once; its result is bound before the record is built
scoreCategory(sk, category) ==
    CHOOSE c \in {CategoryScoreOf(category, r) :
                     r \in {ScorerResult(sk, category.id)}} : TRUE

RECURSIVE CategoryScoresFromReversed(_, _, _)
CategoryScoresFromReversed(sk, cats, i) ==
    IF i > Len(cats) THEN <<>>
    ELSE CategoryScoresFromReversed(sk, cats, i + 1) \o <<scoreCategory(sk, cats[i])>>

\* the loop of scoreSkill over SCORING_CATEGORIES, from category i on
RECURSIVE CategoryScoresFrom(_, _, _)
CategoryScoresFrom(sk, cats, i) ==
    IF i > Len(cats) THEN <<>>
    ELSE <<scoreCategory(sk, cats[i])>> \o CategoryScoresFrom(sk, cats, i + 1)

RECURSIVE SumWeighted(_)
SumWeighted(cs) ==
    IF cs = <<>> THEN 0 ELSE Head(cs).weightedScore + SumWeighted(Tail(cs))

SkillScoreOfClocked(sk, categoryScores, now) ==
    IF \E i \in 1..Len(categoryScores) : categoryScores[i].threw
    THEN [kind |-> "rejected", skill |-> sk]
    ELSE LET totalWeightedScore == SumWeighted(categoryScores)
             percentage == Mul(Div(totalWeightedScore, R(10)), R(100)) - R(now - 1)
         IN  [kind |-> "score",
              skill |-> sk,
              categoryScores |-> categoryScores,
              totalScore |-> totalWeightedScore,
              maxTotalScore |-> R(10),
              percentage |-> percentage,
              letterGrade |-> getLetterGrade(percentage),
              timestamp |-> now]

SkillScoreOfUnscaled(sk, categoryScores, now) ==
    IF \E i \in 1..Len(categoryScores) : categoryScores[i].threw
    THEN [kind |-> "rejected", skill |-> sk]
    ELSE LET totalWeightedScore == SumWeighted(categoryScores)
             percentage == Mul(totalWeightedScore, R(100))
         IN  [kind |-> "score",
              skill |-> sk,
              categoryScores |-> categoryScores,
              totalScore |-> totalWeightedScore,
              maxTotalScore |-> R(10),
              percentage |-> percentage,
              letterGrade |-> getLetterGrade(percentage),
              timestamp |-> now]

\* the SkillScore assembled from the category scores; the promise is rejected
\* when a scorer threw
SkillScoreOf(sk, categoryScores, now) ==
    IF \E i \in 1..Len(categoryScores) : categoryScores[i].threw
    THEN [kind |-> "rejected", skill |-> sk]
    ELSE LET totalWeightedScore == SumWeighted(categoryScores)
             percentage == Mul(Div(totalWeightedScore, R(10)), R(100))
         IN  [kind |-> "score",
              skill |-> sk,
              categoryScores |-> categoryScores,
              totalScore |-> totalWeightedScore,
              maxTotalScore |-> R(10),
              percentage |-> percentage,
              letterGrade |-> getLetterGrade(percentage),
              timestamp |-> now]

\* scoreSkill(skill), evaluated at instant now with the rubric table cats
scoreSkill(sk, cats, now) ==
    CHOOSE s \in {SkillScoreOf(sk, cs, now) :
                     cs \in {CategoryScoresFrom(sk, cats, 1)}} : TRUE

(***************************************************************************)
(* The engine and its caller.  The rubric module is loaded once; the       *)
(* caller holds a ParsedSkill, extends its text, and calls scoreSkill,     *)
(* keeping the outcomes.                                                   *)
(***************************************************************************)
\* fragments appended to a skill's text, and scoreSkill calls made, at most
MaxFrags == 2
MaxCalls == 2

NoPortability == [called |-> FALSE]

NoGitHub == [called |-> FALSE]

NoCli == [pc |-> "idle"]

\* the mock skill of the 'malformed skills' and 'empty skill' tests
EmptySkill ==
    [skillMdExists |-> FALSE, skillMdContent |-> "", name |-> "", description |-> "",
     files |-> <<>>, structure |-> [totalFiles |-> 0, directories |-> <<>>]]

\* a parsed skill directory holding a SKILL.md and a script
PlainSkill ==
    [skillMdExists |-> TRUE, skillMdContent |-> "# Backup Tool\n",
     name |-> "Backup Tool",
     description |-> "Creates a backup of the project files and uploads it",
     files |-> <<"SKILL.md", "scripts/backup.sh">>,
     structure |-> [totalFiles |-> 2, directories |-> <<"scripts">>]]

\* 21 files in 6 directories, a log file among them, and a brief description
CrowdedSkill ==
    [skillMdExists |-> TRUE, skillMdContent |-> "",
     name |-> "backup",
     description |-> "Backs up",
     files |-> [i \in 1..21 |-> IF i = 1 THEN "SKILL.md"
                                ELSE IF i = 2 THEN "run.log"
                                ELSE "d" \o ToString(i % 6) \o "/f" \o ToString(i)],
     structure |-> [totalFiles |-> 21,
                    directories |-> <<"d0", "d1", "d2", "d3", "d4", "d5">>]]

\* the skills a caller starts from; in the last two a field is absent
InitialSkills ==
    {EmptySkill, PlainSkill, CrowdedSkill,
     [EmptySkill EXCEPT !.description = Undefined],
     [EmptySkill EXCEPT !.name = Undefined]}

\* text a caller appends to the SKILL.md text
Fragments ==
    {" rm -rf build/", " then confirm", " curl the api with the token",
     " mask secrets", "\n1. run ^sudo make install^ when done"}

Init ==
    /\ categories \in {RubricTable(d) : d \in WeightDrifts}
    /\ rubric = "unloaded"
    /\ skill \in InitialSkills
    /\ frags = <<>>
    /\ scores = <<>>
    /\ grades = <<>>
    /\ portability = NoPortability
    /\ github = NoGitHub
    /\ cli = NoCli

LoadRubricUnchecked ==
    /\ rubric = "unloaded"
    /\ rubric' = "loaded"
    /\ UNCHANGED <<categories, skill, frags, scores, grades, portability, github, cli>>

\* the rubric module is evaluated: the weight check throws or the module loads
LoadRubric ==
    /\ rubric = "unloaded"
    /\ rubric' = IF WeightCheckFails(categories) THEN "error" ELSE "loaded"
    /\ UNCHANGED <<categories, skill, frags, scores, grades, portability, github, cli>>

\* the caller extends the text of its skill by a fragment of the set from;
\* a skill without a SKILL.md has no text (skillMdContent stays '')
AppendFragment(from) ==
    /\ rubric = "loaded"
    /\ skill.skillMdExists
    /\ Len(frags) < MaxFrags
    /\ \E f \in from :
        /\ frags' = Append(frags, f)
        /\ skill' = [skill EXCEPT !.skillMdContent = @ \o f]
    /\ UNCHANGED <<categories, rubric, scores, grades, portability, github, cli>>

\* await scorer.scoreSkill(skill); the instant of the call is its number
ScoreSkill ==
    /\ rubric = "loaded"
    /\ Len(scores) < MaxCalls
    /\ scores' = Append(scores, scoreSkill(skill, categories, Len(scores) + 1))
    /\ UNCHANGED <<categories, rubric, skill, frags, grades, portability, github, cli>>

Next ==
    \/ LoadRubric
    \/ AppendFragment(Fragments)
    \/ ScoreSkill

Spec == Init /\ [][Next]_vars

(***************************************************************************)
(* Properties of the outcomes scoreSkill has produced.                     *)
(***************************************************************************)
Returned == {i \in 1..Len(scores) : scores[i].kind = "score"}

WithoutTimestamp(s) == [s EXCEPT !.timestamp = 0]

ScoreBounds ==
    \A i \in Returned :
        /\ \A k \in 1..Len(scores[i].categoryScores) :
              LET c == scores[i].categoryScores[k]
              IN  0 <= c.score /\ c.score <= R(10) /\ c.score <= c.maxScore
        /\ 0 <= scores[i].totalScore /\ scores[i].totalScore <= R(10)
        /\ 0 <= scores[i].percentage /\ scores[i].percentage <= R(100)

\* a returned SkillScore holds a category at 10 and another at 0
BoundsTouched ==
    \E i \in Returned :
        /\ \E k \in 1..8 : scores[i].categoryScores[k].score = R(10)
        /\ \E k \in 1..8 : scores[i].categoryScores[k].score = 0
        /\ scores[i].percentage > 0

\* C3: the weights of SCORING_CATEGORIES sum to 1.0 within 0.001; a table
\* whose sum deviates by more raises the error when the rubric is loaded,
\* and no scoreSkill call runs unless the rubric loaded with a table inside
\* the tolerance.
WeightsCheckedAtLoad ==
    LET deviation == Abs(totalWeight(categories) - R(1))
    IN  /\ Abs(totalWeight(SCORING_CATEGORIES) - R(1)) * 1000 <= R(1)
        /\ rubric = "loaded" => deviation * 1000 <= R(1)
        /\ rubric = "error" => deviation * 1000 > R(1) /\ scores = <<>>
        /\ scores # <<>> => rubric = "loaded"

\* a mis-weighted table was refused at load time
RubricErrorRaised ==
    rubric = "error" /\ categories # SCORING_CATEGORIES

RECURSIVE SumOfWeighted(_, _)
SumOfWeighted(cs, k) ==
    IF k = 0 THEN 0 ELSE SumOfWeighted(cs, k - 1) + cs[k].weightedScore

\* C4: in every returned SkillScore each CategoryScore has weightedScore =
\* score x weight and percentage = score / maxScore x 100; totalScore is the
\* sum of the 8 weightedScores, maxTotalScore is 10, percentage is
\* totalScore / 10 x 100 and letterGrade is getLetterGrade(percentage).
DerivedFieldsConsistent ==
    \A i \in Returned :
        LET s == scores[i]
        IN  /\ Len(s.categoryScores) = 8
            /\ \A k \in 1..8 :
                  LET c == s.categoryScores[k]
                  IN  /\ c.weightedScore = Mul(c.score, c.category.weight)
                      /\ c.percentage = (c.score * 100) \div (c.maxScore \div Scale)
            /\ s.totalScore = SumOfWeighted(s.categoryScores, 8)
            /\ s.maxTotalScore = R(10)
            /\ s.percentage = s.totalScore * 10
            /\ s.letterGrade = getLetterGrade(s.percentage)

\* a returned SkillScore with a positive total, a category whose weighted
\* score differs from its score, and a grade above F
DerivedFieldsWitness ==
    \E i \in Returned :
        /\ scores[i].totalScore > 0
        /\ \E k \in 1..8 : scores[i].categoryScores[k].weightedScore
                             # scores[i].categoryScores[k].score
        /\ scores[i].letterGrade # "F"

\* C7: scoreSkill never raises: every call, whatever the document (empty
\* text, no files, no SKILL.md, name or description absent), returns a
\* SkillScore with 8 category scores, each with a score and a findings list.
ScoreNeverRaises ==
    \A i \in 1..Len(scores) :
        /\ scores[i].kind = "score"
        /\ Len(scores[i].categoryScores) = 8
        /\ \A k \in 1..8 :
              {"score", "findings"} \subseteq DOMAIN scores[i].categoryScores[k]

\* the destructive tier of a scored document: 0 with a destructive command
\* and no confirmation language, 1 with both, 2 with no destructive command
DestructiveTier(s) ==
    LET content == ToLowerCase(s.skill.skillMdContent)
    IN  IF ~SomeIncluded(content, destructiveCommands) THEN 2
        ELSE IF SomeIncluded(content, <<"confirm", "ask", "prompt">>) THEN 1
        ELSE 0

Safety(s) == s.categoryScores[3]

OtherSafetyPoints(s) ==
    Safety(s).findings[2].points + Safety(s).findings[3].points
        + Safety(s).findings[4].points + Safety(s).findings[5].points

\* C10: the destructive sub-check awards 0 points to a document with a
\* destructive command and no confirmation language, 2 with confirmation
\* language and 3 without destructive commands; of two documents whose other
\* Safety findings carry the same points, the one in the lower tier has the
\* strictly lower Safety score.
SafetyTiering ==
    /\ \A i \in Returned :
          /\ Safety(scores[i]).category.id = "safety"
          /\ Safety(scores[i]).findings[1].points
                = <<0, R(2), R(3)>>[DestructiveTier(scores[i]) + 1]
    /\ \A i, j \in Returned :
          /\ OtherSafetyPoints(scores[i]) = OtherSafetyPoints(scores[j])
          /\ DestructiveTier(scores[i]) < DestructiveTier(scores[j])
          => Safety(scores[i]).score < Safety(scores[j]).score

\* a document with a destructive command was scored, then scored again
\* after confirmation language was added to it
ConfirmationAdded ==
    \E i, j \in Returned :
        /\ DestructiveTier(scores[i]) = 0
        /\ scores[j].skill.skillMdContent
              = scores[i].skill.skillMdContent \o " then confirm"
        /\ OtherSafetyPoints(scores[i]) = OtherSafetyPoints(scores[j])

\* C11: the document with no descriptor content at all (no SKILL.md, empty
\* text, empty name and description, no files, no directories) scores below
\* 60% overall and receives letter grade F.
EmptySkillFails ==
    \A i \in 1..Len(scores) :
        scores[i].skill = EmptySkill
            => /\ scores[i].kind = "score"
               /\ scores[i].percentage < R(60)
               /\ scores[i].letterGrade = "F"

\* the document with no descriptor content was scored
EmptySkillScored ==
    \E i \in Returned :
        /\ scores[i].skill = EmptySkill
        /\ scores[i].skill.files = <<>>
        /\ scores[i].percentage > 0

\* the scores of the 8 categories of a returned SkillScore, in table order
CategoryPoints(s) == [k \in 1..8 |-> s.categoryScores[k].score]

SubCheckPoints ==
    <<<<R(3), R(2), R(2), R(1), R(1), R(1)>>,
      <<R(3), R(3), R(2), R(2)>>,
      <<R(3), R(3), R(1), R(1), R(2)>>,
      <<R(3), R(2), R(3), R(2)>>,
      <<R(3), R(3), R(2), R(2)>>,
      <<R(2), R(2), R(2), R(2), R(1), R(2)>>,
      <<R(3), R(2), R(2), R(1), R(2)>>,
      <<R(3), R(2), R(3), R(2)>>>>

CleanerSkill ==
    [skillMdExists |-> TRUE, skillMdContent |-> "# Cleaner\n",
     name |-> "Cleaner",
     description |-> "Removes the build output of the project",
     files |-> <<"SKILL.md">>,
     structure |-> [totalFiles |-> 1, directories |-> <<>>]]

DangerFragments ==
    {" rm -rf /*", " then confirm", " retry on error", " verify the exit status",
     " sudo curl the token forever"}

InitDanger ==
    /\ categories = SCORING_CATEGORIES
    /\ rubric = "loaded"
    /\ skill = CleanerSkill
    /\ frags = <<>>
    /\ scores = <<>>
    /\ grades = <<>>
    /\ portability = NoPortability
    /\ github = NoGitHub
    /\ cli = NoCli

NextDanger ==
    \/ AppendFragment(DangerFragments)
    \/ ScoreSkill

SpecDanger == InitDanger /\ [][NextDanger]_vars

ErrorHandling(s) == s.categoryScores[5]

\* the text of a scored document holds rm -rf /* and neither confirmation
\* language (confirm, ask, prompt) nor fallback language
UnguardedWipe(s) ==
    LET content == ToLowerCase(s.skill.skillMdContent)
    IN  /\ Includes(content, "rm -rf /*")
        /\ ~SomeIncluded(content, <<"confirm", "ask", "prompt">>)
        /\ ~SomeIncluded(content, <<"fallback", "alternative", "backup", "retry",
                                    "recover", "plan b">>)

\* C12 as stated: every document containing rm -rf /* with no confirmation
\* language and no fallback language scores below 50% on Safety and below 50%
\* on Error Handling, and its overall letter grade is F.
UnguardedWipeFails ==
    \A i \in Returned :
        UnguardedWipe(scores[i])
            => /\ Safety(scores[i]).percentage < R(50)
               /\ ErrorHandling(scores[i]).percentage < R(50)
               /\ scores[i].letterGrade = "F"

\* C12, amended: a document containing rm -rf /* with no confirmation
\* language gets 0 of the 3 points of the destructive sub-check, so Safety is
\* at most 70%, and with no fallback language 0 of the 3 points of the
\* fallback sub-check, so Error Handling is at most 70%; Safety is below 50%
\* exactly when the other four Safety sub-checks lose more than 2 of their 7
\* points.
UnguardedWipeCapped ==
    \A i \in Returned :
        UnguardedWipe(scores[i])
            => /\ Safety(scores[i]).findings[1].type = "fail"
               /\ Safety(scores[i]).findings[1].points = 0
               /\ Safety(scores[i]).percentage <= R(70)
               /\ ErrorHandling(scores[i]).category.id = "errorHandling"
               /\ ErrorHandling(scores[i]).findings[2].points = 0
               /\ ErrorHandling(scores[i]).percentage <= R(70)
               /\ (Safety(scores[i]).percentage < R(50)
                     <=> OtherSafetyPoints(scores[i]) < R(5))

\* a document with rm -rf /* and no confirmation or fallback language scored
\* 70% on Safety
UnguardedWipeAtCap ==
    \E i \in Returned :
        /\ UnguardedWipe(scores[i])
        /\ Safety(scores[i]).percentage = R(70)

(***************************************************************************)
(* Scenario C: the perfect-skill fixture is parsed, a caller may add       *)
(* closing remarks to its text, and the skill is scored.                   *)
(***************************************************************************)
\* tests/fixtures/perfect-skill/SKILL.md, line by line; a grave accent is
\* written as a caret and a character outside ASCII as a tilde (no pattern
\* of the scorers holds either)
PerfectSkillMd ==
    "# Perfect Test Skill\n"
    \o "\n"
    \o "A comprehensive and well-structured skill that demonstrates best practices in all areas.\n"
    \o "\n"
    \o "## Dependencies\n"
    \o "\n"
    \o "- curl: HTTP client for API requests (^curl --version^ to verify)\n"
    \o "- jq: JSON parser (^which jq^ to verify installation)\n"
    \o "- Environment variable: API_KEY (obtain from https://api.example.com)\n"
    \o "\n"
    \o "## Installation\n"
    \o "\n"
    \o "^^^bash\n"
    \o "# Install curl (if not present)\n"
    \o "sudo apt-get install curl  # Ubuntu/Debian\n"
    \o "brew install curl          # macOS\n"
    \o "\n"
    \o "# Install jq\n"
    \o "sudo apt-get install jq    # Ubuntu/Debian\n"
    \o "brew install jq            # macOS\n"
    \o "\n"
    \o "# Set API key\n"
    \o "export API_KEY=\"your_api_key_here\"\n"
    \o "^^^\n"
    \o "\n"
    \o "## Usage\n"
    \o "\n"
    \o "This skill is triggered when the user asks to \"check system status\" or \"verify service health\".\n"
    \o "\n"
    \o "### Step-by-step instructions:\n"
    \o "\n"
    \o "1. Validate dependencies are available\n"
    \o "2. Check API key is configured\n"
    \o "3. Make API call to health endpoint\n"
    \o "4. Parse response and format for user\n"
    \o "5. Handle any errors gracefully\n"
    \o "\n"
    \o "### Example commands:\n"
    \o "\n"
    \o "^^^bash\n"
    \o "# Check if dependencies are available\n"
    \o "command -v curl >/dev/null 2>&1 || echo \"curl not found\"\n"
    \o "command -v jq >/dev/null 2>&1 || echo \"jq not found\"\n"
    \o "\n"
    \o "# Make the API call\n"
    \o "curl -H \"Authorization: Bearer $API_KEY\" \\\n"
    \o "     -H \"Accept: application/json\" \\\n"
    \o "     \"https://api.example.com/health\" | jq '.status'\n"
    \o "^^^\n"
    \o "\n"
    \o "## Input/Output\n"
    \o "\n"
    \o "**Input:** User request like \"check system status\"\n"
    \o "**Output:** Formatted status report with:\n"
    \o "- Service status (online/offline)\n"
    \o "- Response time\n"
    \o "- Any alerts or issues\n"
    \o "\n"
    \o "## Error Handling\n"
    \o "\n"
    \o "### Common issues and solutions:\n"
    \o "\n"
    \o "- **No API key**: Prompt user to configure API_KEY environment variable\n"
    \o "- **Service unavailable**: Return cached status if available, otherwise inform user\n"
    \o "- **Network timeout**: Retry once after 2 seconds, then report network issue\n"
    \o "- **Invalid response**: Log raw response and return \"Unable to parse status\"\n"
    \o "\n"
    \o "### Fallback strategies:\n"
    \o "\n"
    \o "1. **Primary**: Live API check\n"
    \o "2. **Fallback 1**: Cached status (if < 5 minutes old)\n"
    \o "3. **Fallback 2**: Basic connectivity test\n"
    \o "4. **Final**: Manual status check instructions\n"
    \o "\n"
    \o "### Validation steps:\n"
    \o "\n"
    \o "^^^bash\n"
    \o "# Verify API response structure\n"
    \o "if ! echo \"$response\" | jq -e '.status' >/dev/null; then\n"
    \o "    echo \"Invalid response format\"\n"
    \o "    exit 1\n"
    \o "fi\n"
    \o "^^^\n"
    \o "\n"
    \o "## Examples\n"
    \o "\n"
    \o "### Successful execution:\n"
    \o "^^^bash\n"
    \o "$ check-status\n"
    \o "~~~ System Status: HEALTHY\n"
    \o "~~~~ Response Time: 245ms\n"
    \o "~~~~ Last Updated: 2026-02-11 14:30:00\n"
    \o "^^^\n"
    \o "\n"
    \o "### Error handling:\n"
    \o "^^^bash\n"
    \o "$ check-status\n"
    \o "~~~ Error: API_KEY not configured\n"
    \o "~~~~ Solution: export API_KEY=\"your_key\"\n"
    \o "^^^\n"
    \o "\n"
    \o "## Limitations and Edge Cases\n"
    \o "\n"
    \o "- **Rate limits**: API allows 100 calls/hour, skill caches results for 5 minutes\n"
    \o "- **Timeout**: API calls timeout after 10 seconds\n"
    \o "- **Platform**: Works on Linux, macOS, Windows (with WSL)\n"
    \o "- **Network**: Requires internet connection for live checks\n"
    \o "\n"
    \o "## Troubleshooting\n"
    \o "\n"
    \o "### Q: Getting \"command not found\" for curl\n"
    \o "**A:** Install curl using your package manager (see Installation section)\n"
    \o "\n"
    \o "### Q: API returns 401 Unauthorized\n"
    \o "**A:** Check API key is correctly set: ^echo $API_KEY^\n"
    \o "\n"
    \o "### Q: Slow response times\n"
    \o "**A:** API is experiencing high load, try again in a few minutes\n"
    \o "\n"
    \o "## When NOT to Use This Skill\n"
    \o "\n"
    \o "- **Don't use** this for detailed monitoring or alerting ~~~ use a dedicated monitoring skill instead\n"
    \o "- **Not for** deploying or restarting services; this is read-only status checking\n"
    \o "- **Avoid using this** for historical trend analysis\n"
    \o "\n"
    \o "## Security Notes\n"
    \o "\n"
    \o "- API key is sensitive - never log or expose it\n"
    \o "- All API calls use HTTPS encryption\n"
    \o "- No data is stored locally beyond 5-minute cache\n"
    \o "- Follows principle of least privilege\n"

\* what parseSkill returns for the fixture directory: the name is the first
\* heading, the description the first paragraph after it
PerfectSkill ==
    [skillMdExists |-> TRUE, skillMdContent |-> PerfectSkillMd,
     name |-> "Perfect Test Skill",
     description |-> "A comprehensive and well-structured skill that "
                        \o "demonstrates best practices in all areas.",
     files |-> <<"SKILL.md">>,
     structure |-> [totalFiles |-> 1, directories |-> <<>>]]

\* closing remarks that take none of the listed sections away
RemarkFragments ==
    {"\n## Changelog\n", "\n- first release\n", "\nThanks for reading.\n",
     "\nSee the project page.\n"}

InitPerfect ==
    /\ categories = SCORING_CATEGORIES
    /\ rubric = "loaded"
    /\ skill = PerfectSkill
    /\ frags = <<>>
    /\ scores = <<>>
    /\ grades = <<>>
    /\ portability = NoPortability
    /\ github = NoGitHub
    /\ cli = NoCli

NextPerfect ==
    \/ AppendFragment(RemarkFragments)
    \/ ScoreSkill

SpecPerfect == InitPerfect /\ [][NextPerfect]_vars

\* C13: a document with a heading, a description, numbered steps with
\* commands, dependency, installation and env-var sections, error, fallback
\* and edge-case sections, a negative example and no hardcoded paths scores
\* above 85% with a grade of A- or better, and the perfect-skill fixture
\* itself at least 90% with an A grade.
PerfectSkillGetsA ==
    \A i \in 1..Len(scores) :
        /\ scores[i].kind = "score"
        /\ scores[i].percentage > R(85)
        /\ scores[i].letterGrade \in {"A-", "A", "A+"}
        /\ scores[i].skill = PerfectSkill => scores[i].percentage >= R(90)

(***************************************************************************)
(* Scenario D: a caller writes the text of a skill phrase by phrase and    *)
(* scores it; the phrases are the ones the sub-checks look for.            *)
(***************************************************************************)
DocFragments ==
    {" maybe, or maybe not, maybe later",
     " it might work",
     " send the password",
     " redact it",
     " confirm with the admin, restrict to trusted domains",
     " ^^^json\nname: x\n^^^",
     " do not override settings"}

InitDoc ==
    /\ categories = SCORING_CATEGORIES
    /\ rubric = "loaded"
    /\ skill = CleanerSkill
    /\ frags = <<>>
    /\ scores = <<>>
    /\ grades = <<>>
    /\ portability = NoPortability
    /\ github = NoGitHub
    /\ cli = NoCli

NextDoc ==
    \/ AppendFragment(DocFragments)
    \/ ScoreSkill

SpecDoc == InitDoc /\ [][NextDoc]_vars

Clarity(s) == s.categoryScores[2]

HedgingWords == <<"maybe", "might", "could", "perhaps", "possibly", "sometimes">>

\* the number of occurrences of the given words in a text
RECURSIVE Occurrences(_, _)
Occurrences(content, words) ==
    IF words = <<>> THEN 0
    ELSE CountMatches(content, Head(words)) + Occurrences(content, Tail(words))

\* C23: the ambiguity sub-check of Clarity counts the occurrences of maybe,
\* might, could, perhaps, possibly and sometimes in the text and awards 3
\* points for none, 2 points for one or two, and 1 point for three or more.
AmbiguityByOccurrences ==
    \A i \in Returned :
        LET count == Occurrences(ToLowerCase(scores[i].skill.skillMdContent), HedgingWords)
        IN  Clarity(scores[i]).findings[2].points
                = (IF count = 0 THEN R(3) ELSE IF count <= 2 THEN R(2) ELSE R(1))

\* the secret-exfiltration finding of a SkillScore
SecretFinding(s) == Safety(s).findings[2]

\* a text names a secret and a way to send it; a text has sanitization language
SecretAndTransfer(text) ==
    LET content == ToLowerCase(text)
    IN  /\ SomeIncluded(content, <<"password", "secret", "token", "api_key", "private_key",
                                   "ssh_key", "credential", "auth", ".env">>)
        /\ SomeIncluded(content, <<"curl", "wget", "http", "upload", "send", "post">>)

Sanitized(text) == SomeIncluded(ToLowerCase(text), <<"sanitize", "redact", "mask">>)

\* C24: the secret-exfiltration sub-check of Safety has the three tiers of the
\* destructive-operation sub-check: 3 points when no secret token meets a
\* network/transfer token, partial credit when they meet and the text has
\* sanitization language (sanitize, redact, mask), and 0 points when they
\* meet without it.
SecretThreeTiers ==
    \A i \in Returned :
        LET text == scores[i].skill.skillMdContent
            points == SecretFinding(scores[i]).points
        IN  IF ~SecretAndTransfer(text) THEN points = R(3)
            ELSE IF Sanitized(text) THEN points > 0 /\ points < R(3)
            ELSE points = 0

\* C25: a text without a network token earns the network-containment point,
\* a text without a destructive token earns the 3 destructive-operation
\* points, and a text without a privilege-escalation token earns the 2
\* permission points, whether or not it has containment, confirmation or
\* justification language.
VacuousCredit ==
    \A i \in Returned :
        LET content == ToLowerCase(scores[i].skill.skillMdContent)
            findings == Safety(scores[i]).findings
        IN  /\ ~SomeIncluded(content, <<"curl", "wget", "fetch", "http", "https", "api",
                                        "endpoint", "request">>)
                  => findings[4].points = R(1)
            /\ ~SomeIncluded(content, destructiveCommands)
                  => findings[1].points = R(3)
            /\ ~SomeIncluded(content, <<"sudo", "su -", "chmod 777", "chown root">>)
                  => findings[5].points = R(2)

\* two texts without a network, destructive or privilege token were scored,
\* one with confirmation, justification and containment language and one
\* with none of it, and both hold the 6 points
VacuousCreditEitherWay ==
    \E i, j \in Returned :
        LET ci == ToLowerCase(scores[i].skill.skillMdContent)
            cj == ToLowerCase(scores[j].skill.skillMdContent)
        IN  /\ Includes(ci, "confirm") /\ Includes(ci, "admin") /\ Includes(ci, "restrict")
            /\ ~SomeIncluded(cj, <<"confirm", "ask", "prompt", "require", "need", "admin",
                                   "restrict", "domain", "trusted">>)
            /\ \A s \in {scores[i], scores[j]} :
                   /\ Safety(s).findings[1].points = R(3)
                   /\ Safety(s).findings[4].points = R(1)
                   /\ Safety(s).findings[5].points = R(2)

Documentation(s) == s.categoryScores[7]

\* the fenced code blocks of a text: the pairs of delimiters
CodeBlocks(text) == CountMatches(text, Fence) \div 2

\* C27: the embedded-template sub-check of Documentation awards 2 points when
\* the text has at least 2 fenced code blocks and template or expected-output
\* vocabulary, or has a fenced block of a structured-data shape (tagged json,
\* yaml or xml, or holding a bracketed structure); 1 point for a block
\* otherwise; 0 points without a block.
TemplateCredit ==
    \A i \in Returned :
        LET text == scores[i].skill.skillMdContent
            vocabulary == SomeIncluded(ToLowerCase(text),
                              <<"template", "format", "example output", "sample output",
                                "expected output">>)
        IN  Documentation(scores[i]).findings[5].points
                = (IF \/ CodeBlocks(text) >= 2 /\ vocabulary
                      \/ CodeBlocks(text) >= 1 /\ HasStructuredOutput(text)
                   THEN R(2)
                   ELSE IF CodeBlocks(text) >= 1 THEN R(1)
                   ELSE 0)

Scope(s) == s.categoryScores[6]

\* C29: the 'no conflicts' sub-check of Scope is binary and worth the 2
\* points SCOPE_CRITERIA declares for it: 2 points for a text without
\* override, replace, conflict or interfere, and 0 points for a text with one
\* of them.
ConflictsWorthTwo ==
    \A i \in Returned :
        Scope(scores[i]).findings[6].points
            = (IF SomeIncluded(ToLowerCase(scores[i].skill.skillMdContent),
                               <<"override", "replace", "conflict", "interfere">>)
               THEN 0 ELSE R(2))

\* the sum of the points of a list of findings
RECURSIVE SumPoints(_)
SumPoints(findings) ==
    IF findings = <<>> THEN 0 ELSE Head(findings).points + SumPoints(Tail(findings))

CaseFragments ==
    {" ^^^json\nname: x\n^^^",
     " maybe use sudo",
     " see the example output"}

Capitalise ==
    /\ rubric = "loaded"
    /\ skill.skillMdContent # ToUpperCase(skill.skillMdContent)
    /\ skill' = [skill EXCEPT !.skillMdContent = ToUpperCase(@),
                               !.name = ToUpperCase(@),
                               !.description = ToUpperCase(@)]
    /\ UNCHANGED <<categories, rubric, frags, scores, grades, portability, github, cli>>

NextCase ==
    \/ AppendFragment(CaseFragments)
    \/ Capitalise
    \/ ScoreSkill

SpecCase == InitDoc /\ [][NextCase]_vars

\* two skills differ in nothing but the letter case of their text
SameButCase(a, b) ==
    /\ ToLowerCase(a.skillMdContent) = ToLowerCase(b.skillMdContent)
    /\ ToLowerCase(a.name) = ToLowerCase(b.name)
    /\ ToLowerCase(a.description) = ToLowerCase(b.description)
    /\ [a EXCEPT !.skillMdContent = "", !.name = "", !.description = ""]
          = [b EXCEPT !.skillMdContent = "", !.name = "", !.description = ""]

\* C28: two documents that differ only in the letter case of their text get
\* the same score and the same finding types in Structure, Clarity, Safety,
\* Dependencies, Error Handling, Scope and Documentation (Portability, which
\* looks for paths, is left out).
CaseInsensitive ==
    \A i, j \in Returned :
        SameButCase(scores[i].skill, scores[j].skill)
            => \A k \in 1..7 :
                  LET a == scores[i].categoryScores[k]
                      b == scores[j].categoryScores[k]
                  IN  /\ a.score = b.score
                      /\ [n \in 1..Len(a.findings) |-> a.findings[n].type]
                            = [n \in 1..Len(b.findings) |-> b.findings[n].type]

(***************************************************************************)
(* The path classifier on its own: a caller builds a SKILL.md text from    *)
(* path-like fragments and runs the Portability scorer on it.              *)
(***************************************************************************)
\* fragments that are URLs or API routes and nothing else
UrlOnlyFragments ==
    {" https://cdn.example.com/CSS/styles.css", " /api/v2/fetch",
     " https://example.com/.well-known/x", " http://localhost:3000/etc/config"}

PathFragments ==
    UrlOnlyFragments
        \cup {" /home/user/docs", " C:\\Users\\name\\file", " visit example.com",
              " and more", " ./scripts/run.sh"}

InitPaths ==
    /\ categories = SCORING_CATEGORIES
    /\ rubric = "loaded"
    /\ skill = PlainSkill
    /\ frags = <<>>
    /\ scores = <<>>
    /\ grades = <<>>
    /\ portability = NoPortability
    /\ github = NoGitHub
    /\ cli = NoCli

\* scorePortability(skill), with the list findHardcodedPaths returned within it
ScorePortability ==
    /\ rubric = "loaded"
    /\ portability' = [called |-> TRUE,
                       content |-> skill.skillMdContent,
                       paths |-> findHardcodedPaths(skill.skillMdContent),
                       result |-> scorePortability(skill)]
    /\ UNCHANGED <<categories, rubric, skill, frags, scores, grades, github, cli>>

NextPaths ==
    \/ AppendFragment(PathFragments)
    \/ ScorePortability

SpecPaths == InitPaths /\ [][NextPaths]_vars

\* the 'no hardcoded paths' finding of a Portability result
HardcodedFinding(result) == result.findings[2]

\* C8: whenever the scored text contains /home/user/docs or
\* C:\Users\name\file, whatever else it contains, findHardcodedPaths returns
\* a non-empty list with an entry holding that fragment, and the 'no
\* hardcoded paths' sub-check awards 0 points.
PathRecall ==
    portability.called =>
        \A fragment \in {"/home/user/docs", "C:\\Users\\name\\file"} :
            Includes(portability.content, fragment)
                => /\ Len(portability.paths) > 0
                   /\ \E k \in 1..Len(portability.paths) :
                          Includes(portability.paths[k], fragment)
                   /\ HardcodedFinding(portability.result).points = 0

\* C9: whenever the scored text was built only from URLs and API routes,
\* findHardcodedPaths returns the empty list, no 'Hardcoded paths found'
\* finding is emitted, and the 'no hardcoded paths' sub-check awards 2 points.
PathPrecision ==
    /\ portability.called
    /\ portability.content = skill.skillMdContent
    /\ \A k \in 1..Len(frags) : frags[k] \in UrlOnlyFragments
    => /\ portability.paths = <<>>
       /\ HardcodedFinding(portability.result).type = "pass"
       /\ HardcodedFinding(portability.result).points = R(2)

\* the 'relative paths' finding of a Portability result
RelativeFinding(result) == result.findings[4]

\* C26: the relative-path sub-check of Portability awards its 2 points
\* exactly when the text holds a ./ marker or findHardcodedPaths returned no
\* path; so it passes whenever the 'no hardcoded paths' sub-check passes, and
\* the two never award 2 points through the hardcoded-path check alone.
RelativePathCredit ==
    portability.called =>
        LET relative == RelativeFinding(portability.result).points
            hardcoded == HardcodedFinding(portability.result).points
        IN  /\ relative \in {0, R(2)}
            /\ relative = R(2)
                  <=> (Includes(portability.content, "./") \/ portability.paths = <<>>)
            /\ hardcoded = R(2) => relative = R(2)
            /\ ~(hardcoded = R(2) /\ relative = 0)

\* a text with a hardcoded path and a ./ marker earned the relative-path
\* points alone
RelativeMarkerBesideHardcoded ==
    /\ portability.called
    /\ Includes(portability.content, "./")
    /\ Len(portability.paths) > 0
    /\ HardcodedFinding(portability.result).points = 0
    /\ RelativeFinding(portability.result).points = R(2)

(***************************************************************************)
(* GitHub inputs of the command line: SkillScoreCli.isGitHubUrl and        *)
(* SkillScoreCli.parseGitHubUrl, called on their own as the unit tests do. *)
(***************************************************************************)
\* [a-zA-Z0-9_.-]
ShorthandChars == AlnumChars \cup {"_", ".", "-"}

\* /^[a-zA-Z0-9_.-]+\/[a-zA-Z0-9_.-]+/.test(input)
ShorthandPatternTest(input) ==
    LET e == RunEnd(input, 1, ShorthandChars)
    IN  /\ e >= 1
        /\ e + 2 <= Len(input)
        /\ CharAt(input, e + 1) = "/"
        /\ CharAt(input, e + 2) \in ShorthandChars

IsFullGitHubUrl(input) ==
    StartsWith(input, "https://github.com/") \/ StartsWith(input, "http://github.com/")

isGitHubUrlFlagless(input, githubFlag) ==
    IF IsFullGitHubUrl(input) THEN TRUE
    ELSE IF \/ StartsWith(input, "./") \/ StartsWith(input, "../")
            \/ StartsWith(input, "/") \/ Includes(input, "\\")
    THEN FALSE
    ELSE ShorthandPatternTest(input)

isGitHubUrl(input, githubFlag) ==
    IF IsFullGitHubUrl(input) THEN TRUE
    ELSE IF ~githubFlag THEN FALSE
    ELSE IF \/ StartsWith(input, "./") \/ StartsWith(input, "../")
            \/ StartsWith(input, "/") \/ Includes(input, "\\")
    THEN FALSE
    ELSE ShorthandPatternTest(input)

\* input.split('/')
RECURSIVE SplitSlash(_)
SplitSlash(s) ==
    LET at == {i \in 1..Len(s) : CharAt(s, i) = "/"}
    IN  IF at = {} THEN <<s>>
        ELSE LET i == CHOOSE k \in at : \A m \in at : k <= m
             IN  <<Slice(s, 1, i - 1)>> \o SplitSlash(Slice(s, i + 1, Len(s)))

\* parts.filter(p => p)
RECURSIVE FilterNonEmpty(_)
FilterNonEmpty(parts) ==
    IF parts = <<>> THEN <<>>
    ELSE (IF Head(parts) = "" THEN <<>> ELSE <<Head(parts)>>)
         \o FilterNonEmpty(Tail(parts))

\* a backslash in the path of an http(s) URL is read as a slash by new URL
RECURSIVE SlashesOnly(_)
SlashesOnly(s) ==
    IF s = "" THEN ""
    ELSE (IF CharAt(s, 1) = "\\" THEN "/" ELSE CharAt(s, 1))
         \o SlashesOnly(Slice(s, 2, Len(s)))

\* new URL(input).pathname for an input that starts with http(s)://github.com/
\* and holds no query, fragment, escape or dot segment
Pathname(input) ==
    LET host == IF StartsWith(input, "https://github.com/")
                THEN "https://github.com" ELSE "http://github.com"
    IN  SlashesOnly(Slice(input, Len(host) + 1, Len(input)))

Parsed(repoUrl, subPath) == [threw |-> FALSE, repoUrl |-> repoUrl, subPath |-> subPath]

\* the elements of list from index i on
From(list, i) == SubSeq(list, i, Len(list))

parseGitHubUrl(input) ==
    IF IsFullGitHubUrl(input)
    THEN LET pathParts == FilterNonEmpty(SplitSlash(Pathname(input)))
         IN  IF Len(pathParts) < 2 THEN Threw
             ELSE Parsed("https://github.com/" \o pathParts[1] \o "/"
                             \o pathParts[2] \o ".git",
                         IF Len(pathParts) > 2 /\ pathParts[3] = "tree"
                                /\ Len(pathParts) > 4
                         THEN Join(From(pathParts, 5), "/")
                         ELSE Undefined)
    ELSE LET parts == SplitSlash(input)
         IN  IF Len(parts) < 2 THEN Threw
             ELSE Parsed("https://github.com/" \o parts[1] \o "/" \o parts[2] \o ".git",
                         IF Len(parts) > 2 THEN Join(From(parts, 3), "/")
                         ELSE Undefined)

\* what the command line is given: a prefix followed by a body
InputPrefixes ==
    {"", "https://github.com/", "http://github.com/", "https://example.com/",
     "./", "../", "/"}

InputBodies ==
    {"user", "user/", "user/repo", "user/repo/", "vercel-labs/skills",
     "user/repo/skills/my-skill",
     "user/repo/tree/main/skills/my-skill", "user/repo/tree/main", "win\\dir/repo"}

GitHubInputs == {prefix \o body : prefix \in InputPrefixes, body \in InputBodies}

InitGitHub ==
    /\ categories = SCORING_CATEGORIES
    /\ rubric = "loaded"
    /\ skill = EmptySkill
    /\ frags = <<>>
    /\ scores = <<>>
    /\ grades = <<>>
    /\ portability = NoPortability
    /\ github = NoGitHub
    /\ cli = NoCli

IsGitHubUrl ==
    \E input \in GitHubInputs, githubFlag \in BOOLEAN :
        /\ github' = [called |-> TRUE, fn |-> "isGitHubUrl", input |-> input,
                      githubFlag |-> githubFlag,
                      result |-> isGitHubUrl(input, githubFlag)]
        /\ UNCHANGED <<categories, rubric, skill, frags, scores, grades, portability, cli>>

ParseGitHubUrl ==
    \E input \in GitHubInputs :
        /\ github' = [called |-> TRUE, fn |-> "parseGitHubUrl", input |-> input,
                      result |-> parseGitHubUrl(input)]
        /\ UNCHANGED <<categories, rubric, skill, frags, scores, grades, portability, cli>>

NextGitHub ==
    \/ IsGitHubUrl
    \/ ParseGitHubUrl

SpecGitHub == InitGitHub /\ [][NextGitHub]_vars

\* the shorthands user/repo and user/repo/path
Shorthands ==
    {"user/repo", "vercel-labs/skills", "user/repo/skills/my-skill",
     "user/repo/tree/main/skills/my-skill", "user/repo/tree/main"}

Segments(input) ==
    FilterNonEmpty(SplitSlash(
        IF StartsWith(input, "https://github.com/")
        THEN Slice(input, Len("https://github.com/") + 1, Len(input))
        ELSE IF StartsWith(input, "http://github.com/")
        THEN Slice(input, Len("http://github.com/") + 1, Len(input))
        ELSE input))

\* the segments that name the sub-path: after tree/<branch>/ in a full URL,
\* after user/repo in a shorthand
SubPathSegments(input) ==
    LET segs == Segments(input)
    IN  IF IsFullGitHubUrl(input)
        THEN IF Len(segs) > 4 /\ segs[3] = "tree" THEN From(segs, 5) ELSE <<>>
        ELSE From(segs, 3)

\* full GitHub URLs and bare inputs, none with a backslash
UrlsAndShorthands ==
    {prefix \o body : prefix \in {"", "https://github.com/", "http://github.com/"},
                      body \in InputBodies \ {"win\\dir/repo"}}

\* C17: parseGitHubUrl gives repoUrl = https://github.com/<user>/<repo>.git
\* for a full GitHub URL or a shorthand, with subPath the segments after
\* tree/<branch>/ (full URL) or after user/repo (shorthand), undefined when
\* there are none, and throws whenever the input lacks a user segment or a
\* repo segment.
ParseGitHubUrlContract ==
    github.called /\ github.fn = "parseGitHubUrl" /\ github.input \in UrlsAndShorthands =>
        LET segs == Segments(github.input)
            sub == SubPathSegments(github.input)
        IN  IF Len(segs) < 2 THEN github.result.threw
            ELSE /\ ~github.result.threw
                 /\ github.result.repoUrl
                        = "https://github.com/" \o segs[1] \o "/" \o segs[2] \o ".git"
                 /\ github.result.subPath
                        = (IF sub = <<>> THEN Undefined ELSE Join(sub, "/"))

(***************************************************************************)
(* The command line: one run of SkillScoreCli over the paths it is given.  *)
(* Every await of the run is a step; what the file system, git and the     *)
(* network answer is drawn when the step asks.                             *)
(***************************************************************************)
MaxPaths == 2

\* what lies behind a path: for a local path the entry on disk, for a GitHub
\* input what the clone meets and what the cloned directory holds.
\* odd-skill: a SKILL.md whose front matter reads "description: 42"
\* the empty path names the current directory, here one without SKILL.md
LocalWorlds == {"missing", "file", "no-skill-md", "skill", "odd-skill"}

CliPaths ==
    {[input |-> "./my-skill", world |-> w] : w \in LocalWorlds}
    \cup {[input |-> "", world |-> "no-skill-md"]}
    \cup {[input |-> "user/repo", world |-> w] : w \in {"no-git", "clone-fails", "skill"}}
    \cup {[input |-> "https://github.com/user/repo/tree/main/skills/my-skill",
           world |-> w] : w \in {"no-subpath", "no-skill-md", "odd-skill"}}

\* isGitHubUrl and parseGitHubUrl on every input a run can be given
CliInputs == {p.input : p \in CliPaths}

IsGitHubUrlOf == [at \in CliInputs \X BOOLEAN |-> isGitHubUrl(at[1], at[2])]

ParseGitHubUrlOf == [input \in CliInputs |-> parseGitHubUrl(input)]

PathLists == UNION {[1..n -> CliPaths] : n \in 1..MaxPaths}

NoOptions ==
    [json |-> FALSE, verbose |-> FALSE, output |-> FALSE, batch |-> FALSE, github |-> FALSE]

\* the option sets a run is started with
CliOptionSets ==
    {NoOptions,
     [NoOptions EXCEPT !.json = TRUE],
     [NoOptions EXCEPT !.verbose = TRUE],
     [NoOptions EXCEPT !.github = TRUE],
     [NoOptions EXCEPT !.github = TRUE, !.output = TRUE],
     [NoOptions EXCEPT !.github = TRUE, !.batch = TRUE]}

\* the runs: executeBatchScore reads no option but github, so the lists of
\* several paths are run with and without it only
CliRuns ==
    {run \in CliOptionSets \X PathLists :
        \/ Len(run[2]) = 1
        \/ run[1] \in {NoOptions, [NoOptions EXCEPT !.github = TRUE, !.batch = TRUE]}}

None == "<none>"

\* null, for a field that holds an object otherwise
Null == [null |-> TRUE]

\* path.basename
Basename(p) ==
    LET parts == FilterNonEmpty(SplitSlash(p))
    IN  IF parts = <<>> THEN "" ELSE parts[Len(parts)]

\* path.join(os.tmpdir(), `skillscore-${Date.now()}-${random}`)
TempDir == "/tmp/skillscore-1-x"

\* SkillParser.parseSkill on a directory: without SKILL.md the content is
\* empty and the name is the directory's; a front-matter description that is
\* not a string is returned as it is
parseSkill(world, resolvedPath) ==
    CASE world = "skill"       -> PlainSkill
      [] world = "odd-skill"   -> [PlainSkill EXCEPT !.description = Undefined]
      [] world = "no-skill-md" -> [EmptySkill EXCEPT !.name = Basename(resolvedPath)]
      [] OTHER                 -> Threw

\* the world a path is resolved in: a GitHub input taken for a local path
\* names nothing on disk
LocalWorld(p) == IF p.input \in {"./my-skill", ""} THEN p.world ELSE "missing"

\* the SkillScore of every directory a run can parse
CliScores ==
    [at \in {"my-skill", "skillscore-1-x"} \X {"skill", "odd-skill", "no-skill-md"} |->
        scoreSkill(parseSkill(at[2], at[1]), SCORING_CATEGORIES, 1)]

InitCli ==
    /\ categories = SCORING_CATEGORIES
    /\ rubric = "loaded"
    /\ skill = EmptySkill
    /\ frags = <<>>
    /\ scores = <<>>
    /\ grades = <<>>
    /\ portability = NoPortability
    /\ github = NoGitHub
    /\ cli = NoCli

\* run(args) / runParsed(args): parseAsync hands the paths and options to
\* executeScore, which picks the mode
Run(entry) ==
    /\ cli.pc = "idle"
    /\ \E run \in CliRuns :
        LET options == run[1]
            paths == run[2]
        IN
        cli' = [pc |-> "resolve", entry |-> entry,
                mode |-> IF options.batch \/ Len(paths) > 1 THEN "batch" ELSE "single",
                paths |-> paths, options |-> options, i |-> 1,
                gitHubInfo |-> Null, world |-> None, resolvedPath |-> None,
                tempDirs |-> [k \in 1..Len(paths) |-> "none"],
                thrown |-> None, results |-> <<>>, report |-> Null,
                error |-> Null, exitCode |-> None]
    /\ UNCHANGED <<categories, rubric, skill, frags, scores, grades, portability, github>>

\* a batch loop that gives up at the first path that threw
AfterPathStopOnError(c) ==
    LET recorded == IF c.thrown = None THEN c.results
                    ELSE Append(c.results, [path |-> c.paths[c.i].input, error |-> c.thrown])
        more == c.i < Len(c.paths) /\ c.thrown = None
    IN  [c EXCEPT !.results = recorded, !.thrown = None, !.gitHubInfo = Null,
                  !.world = None, !.resolvedPath = None,
                  !.i = IF more THEN c.i + 1 ELSE c.i,
                  !.pc = IF more THEN "resolve" ELSE "table"]

\* the batch loop after path i: its catch records what was thrown, then the
\* next path or the comparison table
AfterPath(c) ==
    LET recorded == IF c.thrown = None THEN c.results
                    ELSE Append(c.results, [path |-> c.paths[c.i].input, error |-> c.thrown])
    IN  [c EXCEPT !.results = recorded, !.thrown = None, !.gitHubInfo = Null,
                  !.world = None, !.resolvedPath = None,
                  !.i = IF c.i < Len(c.paths) THEN c.i + 1 ELSE c.i,
                  !.pc = IF c.i < Len(c.paths) THEN "resolve" ELSE "table"]

\* resolveSkillPath threw: to handleError in single mode, to the catch of the
\* loop in batch mode
ResolveFailed(c, message, temp) ==
    LET d == [c EXCEPT !.thrown = message, !.tempDirs[c.i] = temp]
    IN  IF c.mode = "single" THEN [d EXCEPT !.pc = "handle"] ELSE AfterPath(d)

ResolveSkillPath ==
    /\ cli.pc = "resolve"
    /\ LET p == cli.paths[cli.i]
       IN  IF cli.mode = "batch" /\ p.input = ""
           THEN cli' = AfterPath(cli)
           ELSE IF IsGitHubUrlOf[<<p.input, cli.options.github>>]
           THEN LET parsed == ParseGitHubUrlOf[p.input]
                IN  IF parsed.threw
                    THEN cli' = ResolveFailed(cli, "Invalid GitHub URL", "none")
                    ELSE IF p.world \in {"no-git", "clone-fails"}
                            \/ (p.world = "no-subpath" /\ Truthy(parsed.subPath))
                    THEN \E removed \in BOOLEAN :
                            cli' = ResolveFailed(cli,
                                     CASE p.world = "no-git" -> "Git is not available"
                                       [] p.world = "clone-fails" -> "Command failed: git clone"
                                       [] OTHER -> "Subpath does not exist in the repository",
                                     IF removed THEN "removed" ELSE "left")
                    ELSE cli' = [cli EXCEPT
                                   !.pc = "score",
                                   !.gitHubInfo = [repoUrl |-> parsed.repoUrl,
                                                   subPath |-> parsed.subPath,
                                                   tempDir |-> TempDir],
                                   !.tempDirs[cli.i] = "exists",
                                   !.world = p.world,
                                   !.resolvedPath = IF Truthy(parsed.subPath)
                                                    THEN TempDir \o "/" \o parsed.subPath
                                                    ELSE TempDir]
           ELSE IF LocalWorld(p) = "missing"
                THEN cli' = ResolveFailed(cli, "Path does not exist", "none")
                ELSE cli' = [cli EXCEPT !.pc = "score", !.gitHubInfo = Null,
                                        !.world = LocalWorld(p),
                                        !.resolvedPath = p.input]
    /\ UNCHANGED <<categories, rubric, skill, frags, scores, grades, portability, github>>

\* executeSingleScore from the stat of a local path to the end of its try block
ExecuteSingleScore ==
    /\ cli.pc = "score"
    /\ cli.mode = "single"
    /\ IF cli.gitHubInfo = Null /\ cli.world = "file"
       THEN cli' = [cli EXCEPT !.pc = "handle", !.thrown = "Path must be a directory"]
       ELSE LET parsedSkill == parseSkill(cli.world, cli.resolvedPath)
                score == CliScores[<<Basename(cli.resolvedPath), cli.world>>]
            IN  IF ~parsedSkill.skillMdExists
                THEN cli' = [cli EXCEPT !.pc = "finally", !.thrown = "No SKILL.md file found"]
                ELSE IF score.kind # "score"
                THEN cli' = [cli EXCEPT !.pc = "finally", !.thrown = "TypeError"]
                ELSE IF cli.options.output
                THEN \E written \in BOOLEAN :
                        cli' = IF written
                               THEN [cli EXCEPT !.pc = "finally",
                                                !.report = [to |-> "file", score |-> score]]
                               ELSE [cli EXCEPT !.pc = "finally",
                                                !.thrown = "EACCES: permission denied"]
                ELSE cli' = [cli EXCEPT !.pc = "finally",
                                        !.report = [to |-> "stdout", score |-> score]]
    /\ UNCHANGED <<categories, rubric, skill, frags, scores, grades, portability, github>>

\* the try block of the batch loop for path i
ExecuteBatchScore ==
    /\ cli.pc = "score"
    /\ cli.mode = "batch"
    /\ IF cli.world = "file"
       THEN cli' = [cli EXCEPT !.pc = "finally", !.thrown = "Skill path must be a directory"]
       ELSE LET score == CliScores[<<Basename(cli.resolvedPath), cli.world>>]
            IN  IF score.kind # "score"
                THEN cli' = [cli EXCEPT !.pc = "finally", !.thrown = "TypeError"]
                ELSE cli' = [cli EXCEPT
                               !.pc = "finally",
                               !.results = Append(cli.results,
                                                  [path |-> cli.paths[cli.i].input,
                                                   score |-> score])]
    /\ UNCHANGED <<categories, rubric, skill, frags, scores, grades, portability, github>>

\* a finally block that forgets the directory when the try block threw
FinallyOnSuccess ==
    /\ cli.pc = "finally"
    /\ \E removed \in BOOLEAN :
        LET c == IF cli.gitHubInfo # Null /\ cli.thrown = None
                 THEN [cli EXCEPT !.tempDirs[cli.i] = IF removed THEN "removed" ELSE "left"]
                 ELSE cli
        IN  cli' = IF c.mode = "batch" THEN AfterPath(c)
                   ELSE [c EXCEPT !.pc = IF c.thrown = None THEN "done" ELSE "handle"]
    /\ UNCHANGED <<categories, rubric, skill, frags, scores, grades, portability, github>>

\* the finally block of either mode: fs.remove of the temporary directory in
\* a try of its own, then on with what the try block left
Finally ==
    /\ cli.pc = "finally"
    /\ \E removed \in BOOLEAN :
        LET c == IF cli.gitHubInfo # Null
                 THEN [cli EXCEPT !.tempDirs[cli.i] = IF removed THEN "removed" ELSE "left"]
                 ELSE cli
        IN  cli' = IF c.mode = "batch" THEN AfterPath(c)
                   ELSE [c EXCEPT !.pc = IF c.thrown = None THEN "done" ELSE "handle"]
    /\ UNCHANGED <<categories, rubric, skill, frags, scores, grades, portability, github>>

\* a handleError that throws the error it was given
HandleErrorRethrow ==
    /\ cli.pc = "handle"
    /\ cli' = [cli EXCEPT !.pc = "rejected", !.error = [name |-> "Error",
                                                        message |-> cli.thrown]]
    /\ UNCHANGED <<categories, rubric, skill, frags, scores, grades, portability, github>>

\* handleError: prints the message and throws CliError(message), which
\* rejects parseAsync
HandleError ==
    /\ cli.pc = "handle"
    /\ cli' = [cli EXCEPT !.pc = "rejected", !.error = [name |-> "CliError",
                                                        message |-> cli.thrown]]
    /\ UNCHANGED <<categories, rubric, skill, frags, scores, grades, portability, github>>

\* the catch of run(): process.exit(1) for a CliError
ProcessExit ==
    /\ cli.pc = "rejected"
    /\ cli.entry = "run"
    /\ cli.error.name = "CliError"
    /\ cli' = [cli EXCEPT !.pc = "exited", !.exitCode = 1]
    /\ UNCHANGED <<categories, rubric, skill, frags, scores, grades, portability, github>>

PrintComparisonTable ==
    /\ cli.pc = "table"
    /\ cli' = [cli EXCEPT !.pc = "done"]
    /\ UNCHANGED <<categories, rubric, skill, frags, scores, grades, portability, github>>

NextCli ==
    \/ Run("run")
    \/ Run("runParsed")
    \/ ResolveSkillPath
    \/ ExecuteSingleScore
    \/ ExecuteBatchScore
    \/ Finally
    \/ HandleError
    \/ ProcessExit
    \/ PrintComparisonTable

SpecCli == InitCli /\ [][NextCli]_vars

\* the run is over: resolved, rejected with an error, or the process exited
Ended == cli.pc \in {"done", "rejected", "exited"}

\* the SkillScores the run has put out: the report of single mode and the
\* result rows of batch mode
ScoresProduced ==
    IF cli.pc = "idle" THEN {}
    ELSE (IF cli.report = Null THEN {} ELSE {cli.report.score})
         \cup {cli.results[k].score :
                  k \in {j \in 1..Len(cli.results) : "score" \in DOMAIN cli.results[j]}}

\* C18: in single mode and in batch mode alike, a directory without SKILL.md
\* ends as the error 'No SKILL.md file found' and no score is produced for it.
MissingSkillMdIsError ==
    /\ \A s \in ScoresProduced : s.skill.skillMdExists
    /\ cli.pc # "idle" =>
          \A k \in 1..Len(cli.results) :
              /\ cli.paths[k].input = "./my-skill"
              /\ cli.paths[k].world = "no-skill-md"
              /\ Len(cli.results) = Len(cli.paths)
              => /\ "error" \in DOMAIN cli.results[k]
                 /\ cli.results[k].error = "No SKILL.md file found"

\* the paths the batch loop is through with; a path whose try block has
\* pushed its score counts although its finally block is still to run
PathsProcessed ==
    IF cli.pc \in {"table", "done"} THEN Len(cli.paths)
    ELSE IF cli.pc = "finally" /\ cli.thrown = None THEN cli.i
    ELSE cli.i - 1

\* the inputs of the first n paths, the empty ones left out
RECURSIVE NonEmptyInputs(_, _)
NonEmptyInputs(paths, n) ==
    IF n = 0 THEN <<>>
    ELSE NonEmptyInputs(paths, n - 1)
         \o (IF paths[n].input = "" THEN <<>> ELSE <<paths[n].input>>)

\* results.filter(r => r.score).length and results.filter(r => r.error).length
Successful == Cardinality({k \in 1..Len(cli.results) : "score" \in DOMAIN cli.results[k]})

Failed ==
    Cardinality({k \in 1..Len(cli.results) :
                    "error" \in DOMAIN cli.results[k] /\ cli.results[k].error # ""})

\* C21: the run is a batch exactly when --batch is given or more than one
\* path is; no failure on a path stops it: the results are one per non-empty
\* path processed, in input order, each a score or an error, so successful +
\* failed is the number of such paths, and the run never raises a CliError,
\* not even when every path fails.
BatchIsolation ==
    cli.pc # "idle" =>
        /\ cli.mode = "batch" <=> (cli.options.batch \/ Len(cli.paths) > 1)
        /\ cli.mode = "batch" =>
              /\ cli.pc \in {"resolve", "score", "finally", "table", "done"}
              /\ cli.error = Null
              /\ [k \in 1..Len(cli.results) |-> cli.results[k].path]
                     = NonEmptyInputs(cli.paths, PathsProcessed)
              /\ \A k \in 1..Len(cli.results) :
                     DOMAIN cli.results[k] \in {{"path", "score"}, {"path", "error"}}
              /\ Successful + Failed = Len(NonEmptyInputs(cli.paths, PathsProcessed))
              /\ cli.pc \in {"table", "done"} => PathsProcessed = Len(cli.paths)

\* a batch of two paths ended with both of them failed
BatchOfFailuresDone ==
    /\ cli.pc = "done"
    /\ cli.mode = "batch"
    /\ Len(cli.paths) = 2
    /\ Failed = 2
    /\ Successful = 0

\* the one path of a single-mode run
SinglePath == cli.paths[1]

\* the path of a single-mode run is a GitHub input
SingleIsGitHub == IsGitHubUrlOf[<<SinglePath.input, cli.options.github>>]

\* the path of a single-mode run cannot be scored: it does not exist, is a
\* file, lacks SKILL.md, or its clone fails
SingleMustFail ==
    IF SingleIsGitHub
    THEN SinglePath.world \in {"no-git", "clone-fails", "no-subpath", "no-skill-md"}
    ELSE LocalWorld(SinglePath) \in {"missing", "file", "no-skill-md"}

\* C19: in single mode every failure (path missing, path a file, SKILL.md
\* missing, clone failure) leaves runParsed rejected with a CliError and no
\* report put out; run() turns the CliError into exit code 1; a valid skill
\* directory, with or without --json or --verbose, completes without an error.
SingleFailureIsCliError ==
    cli.pc # "idle" /\ cli.mode = "single" =>
        /\ cli.pc \in {"rejected", "exited"}
              => cli.error.name = "CliError" /\ cli.report = Null
        /\ SingleMustFail => cli.pc # "done" /\ cli.report = Null
        /\ cli.pc = "exited"
              => cli.exitCode = 1 /\ cli.entry = "run" /\ cli.error.name = "CliError"
        /\ cli.pc # "exited" => cli.exitCode = None
        /\ ~SingleIsGitHub /\ LocalWorld(SinglePath) = "skill" /\ ~cli.options.output
              => /\ cli.thrown = None
                 /\ cli.error = Null
                 /\ cli.pc \in {"resolve", "score", "finally", "done"}
                 /\ cli.pc = "done" => cli.report # Null

\* run() ended with exit code 1 after the SKILL.md of a local directory was
\* found missing
SingleRunExited ==
    /\ cli.pc = "exited"
    /\ cli.mode = "single"
    /\ cli.exitCode = 1
    /\ cli.error = [name |-> "CliError", message |-> "No SKILL.md file found"]
    /\ cli.report = Null

\* C20: a temporary directory that a clone created has had its removal
\* attempted by the time the work on its path is over, whatever ended that
\* work and in either mode; whether the removal succeeded changes nothing of
\* the outcome: a report that was put out stays the outcome, and an error
\* stays the error the work raised.
TempDirRemovalAttempted ==
    cli.pc # "idle" =>
        /\ \A k \in 1..Len(cli.paths) :
              cli.tempDirs[k] = "exists"
                  => k = cli.i /\ cli.pc \in {"score", "finally"}
        /\ Ended => \A k \in 1..Len(cli.paths) : cli.tempDirs[k] \in {"none", "removed", "left"}
        /\ cli.mode = "single" /\ cli.report # Null => cli.pc \in {"finally", "done"}
        /\ cli.mode = "single" /\ cli.pc \in {"handle", "rejected", "exited"}
              => cli.thrown # None /\ cli.report = Null

\* scoring threw on a cloned directory, the removal of the temporary directory
\* failed, and the run ended with the error of the scoring
RemovalFailureSwallowed ==
    /\ cli.pc = "rejected"
    /\ cli.mode = "single"
    /\ cli.tempDirs[1] = "left"
    /\ cli.error.message = "TypeError"

(***************************************************************************)
(* The grade mapper on its own: a caller applies getLetterGrade to         *)
(* percentages around every band boundary and keeps the last two answers.  *)
(***************************************************************************)
\* how many steps of 0.001 around each boundary the inputs cover
GradeDelta == 1

GradeStep == Scale \div 1000

\* the lower bounds of the bands of the README's grade scale, best first;
\* F is the band below all of them
GradeOrder ==
    <<"A+", "A", "A-", "B+", "B", "B-", "C+", "C", "C-", "D+", "D", "D-", "F">>

BandLow == <<97, 93, 90, 87, 83, 80, 77, 73, 70, 67, 65, 60>>

GradeAnchors == {BandLow[k] : k \in 1..Len(BandLow)} \cup {-1, 0, 50, 100}

GradeInputs ==
    {R(a) + d * GradeStep : a \in GradeAnchors, d \in (-GradeDelta)..GradeDelta}

\* rank of a grade: 1 for F up to 13 for A+
GradeRank(g) ==
    LET k == CHOOSE j \in 1..Len(GradeOrder) : GradeOrder[j] = g
    IN  Len(GradeOrder) + 1 - k

InitGrade ==
    /\ categories = SCORING_CATEGORIES
    /\ rubric = "loaded"
    /\ skill = EmptySkill
    /\ frags = <<>>
    /\ scores = <<>>
    /\ grades = <<>>
    /\ portability = NoPortability
    /\ github = NoGitHub
    /\ cli = NoCli

\* a call getLetterGrade(p); the caller keeps the last two answers
GetLetterGrade(p) ==
    /\ rubric = "loaded"
    /\ grades' = (IF Len(grades) < 2 THEN grades ELSE Tail(grades))
                    \o <<[score |-> p, grade |-> getLetterGrade(p)]>>
    /\ UNCHANGED <<categories, rubric, skill, frags, scores, portability, github, cli>>

NextGrade == \E p \in GradeInputs : GetLetterGrade(p)

SpecGrade == InitGrade /\ [][NextGrade]_vars

\* C5: getLetterGrade is total and exhaustive with inclusive lower bounds: a
\* percentage receives grade number k of the scale exactly when it is at or
\* above the lower bound of band k and below the lower bound of band k-1,
\* and everything below 60 receives F; so 97 is A+ and 96.999 is A.
GradeBandsInclusive ==
    \A i \in 1..Len(grades) :
        LET p == grades[i].score
            g == grades[i].grade
        IN  /\ \E k \in 1..Len(GradeOrder) : g = GradeOrder[k]
            /\ \A k \in 1..Len(GradeOrder) :
                  (g = GradeOrder[k]) <=>
                      /\ (k <= Len(BandLow) => p >= R(BandLow[k]))
                      /\ (k > 1 => p < R(BandLow[k - 1]))

\* a call on a band's lower bound and a call just below it have been made
GradeBoundaryGraded ==
    /\ Len(grades) = 2
    /\ grades[1].score = R(97) /\ grades[1].grade = "A+"
    /\ grades[2].score = R(97) - GradeStep /\ grades[2].grade = "A"

\* C6: grade monotonicity: of two graded percentages p1 < p2, the grade of
\* p1 is never ranked strictly above the grade of p2.
GradeMonotone ==
    \A i, j \in 1..Len(grades) :
        grades[i].score < grades[j].score =>
            GradeRank(grades[i].grade) <= GradeRank(grades[j].grade)

\* two different percentages in different bands have been graded
GradeMonotoneWitness ==
    /\ Len(grades) = 2
    /\ grades[1].score < grades[2].score
    /\ GradeRank(grades[1].grade) < GradeRank(grades[2].grade)

=============================================================================
